---------------------------- MODULE Spec2Model ----------------------------
(***************************************************************************)
(* Scene capture and dataset-consistency pipeline of MUSE_Carla.           *)
(*                                                                         *)
(*   SpecClean : clean_scene_data (sensor_processing.py) run on a scene    *)
(*               directory with arbitrary contents.                        *)
(*   SpecCleanAny : the same directories handed to either of the two       *)
(*               clean_scene_data of the repository (sensor_processing.py  *)
(*               and multi_sensor_collection.py), and cleaned twice.       *)
(*   SpecRun   : run_simulation, its per-tick rendezvous on the sensor     *)
(*               queue, and the sensor callbacks that feed the queue.      *)
(*   SpecRunFair : SpecRun with the fairness of the controlling thread.    *)
(*   Spec      : main of multi_sensor_collection.py: the scene loop with   *)
(*               its retries, spawn_ego_vehicle, the warm-up, the sensor   *)
(*               attachment, run_simulation (one step per tick iteration)  *)
(*               and the cleanup blocks.                                   *)
(*   SpecClip  : liang_barsky_clip called on a segment and a viewport.     *)
(*   SpecClipFloat : the same calls, the quotients rounded as floats.      *)
(*   SpecProject : get_image_point called on a vertex.                     *)
(*   SpecExport : export_3d_bboxes run on the vehicles of the world.       *)
(***************************************************************************)
EXTENDS Integers, Sequences, FiniteSets, TLC

(***************************************************************************)
(* Bounds of the model.                                                    *)
(***************************************************************************)
\* timestamps of primary sensor files found in a scene directory: 1..MaxTs
MaxTs == 3
\* timestamps of side files (<t>_3dbbox.json, <t>.ply): 1..MaxSideTs
MaxSideTs == 1
\* ticks_per_scene handed to run_simulation in SpecRun
RunTicks == 2
\* tokens the sensor queue holds at most (queue.Queue() itself is unbounded)
MaxQueue == 2
\* config: simulation.num_scenes
NumScenes == 2
\* config: simulation.seconds_per_scene
SecondsPerScene == 1
\* spawn points of the map
NumSpawnPoints == 2
\* ego vehicles spawned whose set_autopilot raised, at most
MaxOrphans == 1
\* segment endpoints have integer coordinates in -1..MaxCoord
MaxCoord == 3
\* fraction bits a float carries in the rounded model of liang_barsky_clip
MantissaBits == 3
\* the largest vertex coordinate, in units of 1e-4
FarE4 == 200000
\* vehicles in the world when a camera frame is exported
NumVehicles == 2
\* half the width and half the height of the camera image, in pixels
HalfW == 4
HalfH == 3

(***************************************************************************)
(* Constants of the program.                                               *)
(***************************************************************************)
\* 1 / 1e-6, the tolerance of liang_barsky_clip's degenerate test
DegenerateTolDen == 1000000
\* the length 1 in units of 1e-4
UnitE4 == 10000
\* get_image_point: the epsilon 1e-4, the clamped depth 1e-3 (units of
\* 1e-4) and the sentinel coordinate -1e6 negated
EpsE4 == 1
ClampE4 == 10
SentinelPx == 1000000
\* export_3d_bboxes: the distance filter and the tiny box filter
MaxDistance == 50
MinBoxPx == 3
TickRate == 20
StabilizeTicks == 20
MaxRetries == 10
MaxSceneRetries == 3

VARIABLES
    \* ---- the scene directory clean_scene_data works on
    sensor_names,   \* the sensor folder names handed to clean_scene_data
    isdir,          \* isdir[s]: os.path.isdir(scene_path/s)
    files,          \* files[s]: os.listdir(scene_path/s), a set of file names
    before,         \* files as they were when clean_scene_data was entered
    clean_impl,     \* which clean_scene_data runs: "sensor_processing" |
                    \* "multi_sensor_collection"
    clean_pc,       \* "ready" | "done" | "done_again"
    clean_out,      \* what clean_scene_data printed last
    \* ---- run_simulation and the sensor callbacks
    sensors_config, \* sensors_config[i]: the name of the i-th configured sensor
    sensor_list,    \* the sensor actors attached so far (indices of the config)
    sensor_alive,   \* the sensor actors whose is_alive is true
    ego,            \* the local `vehicle`: "unbound" | "alive" | "dead"
    ticks_per_scene,
    rs_pc,          \* "idle" | "tick" | "wait" | "finally" | "returned" | "raised"
    rs_exc,         \* "none" | "caught" | "KeyboardInterrupt"
    tick,           \* iterations of the tick loop started so far
    sensor_queue,   \* the queue.Queue of (timestamp, name) tokens
    received_sensors, \* the dict of the current tick, name -> token
    pending,        \* callbacks the simulator still has to invoke
    tick_out,       \* how the wait of the current tick ended
    gets,           \* queue gets that returned a token in the current tick
    \* ---- main: the scene loop
    main_pc,        \* "idle" | "attempt" | "spawn_ego" | "stabilize" | "attach" |
                    \* "run" | "finally" | "after_loop" | "clean" | "exit"
    scene_id,
    scene_retry,
    scene_completed,
    scene_paths,    \* one entry (the scene id) per scene attempt
    flow,           \* how the try block was left: "none" | "completed" |
                    \* "retry" | "give_up" | "interrupt"
    retry,          \* spawn_ego_vehicle: sweeps finished
    sp_idx,         \* spawn_ego_vehicle: spawn points tried in this sweep
    sp_successes,   \* try_spawn_actor calls of this call that returned a vehicle
    sweep_ticks,    \* world.tick() calls of this spawn_ego_vehicle call
    warm,           \* warm-up ticks done
    orphans,        \* live ego vehicles no variable refers to
    completed,      \* scene ids that set scene_completed
    failed,         \* scene ids reported as failed
    clean_idx,      \* entries of scene_paths handed to clean_scene_data
    \* ---- bounding_box_export.py
    lb_args,        \* the arguments of a liang_barsky_clip call
    lb_ret,         \* what the call returned
    gip_args,       \* the arguments of a get_image_point call
    gip_ret,        \* what the call returned
    ex_pc,          \* export_3d_bboxes: "idle" | "actors" | "save" | "written" |
                    \* "raised"
    vehicles,       \* world.get_actors().filter('*vehicle*')
    ex_i,           \* actors of `vehicles` the for loop is done with
    output_data     \* the annotations appended so far

cleanVars == <<sensor_names, isdir, files, before, clean_impl, clean_pc, clean_out>>
actorVars == <<sensor_list, sensor_alive, ego>>
runVars == <<sensors_config, ticks_per_scene, rs_pc, rs_exc, tick, sensor_queue,
             received_sensors, pending, tick_out, gets>>
spawnVars == <<retry, sp_idx, sp_successes, sweep_ticks, orphans>>
mainVars == <<main_pc, scene_id, scene_retry, scene_completed, scene_paths, flow,
              warm, completed, failed, clean_idx>>
geomVars == <<lb_args, lb_ret, gip_args, gip_ret, ex_pc, vehicles, ex_i, output_data>>
vars == <<cleanVars, actorVars, runVars, spawnVars, mainVars, geomVars>>

(***************************************************************************)
(* File names.  A file name <t><ext> is the record [ts |-> t, ext |-> e];  *)
(* "<t>_3dbbox.json" has ext "_3dbbox.json".  A base name (the name with   *)
(* its last extension stripped) is the pair <<t, suffix>>.                 *)
(***************************************************************************)
Timestamps == 1..MaxTs
SideTimestamps == 1..MaxSideTs

SupportedExts == {".png", ".npy", ".json", ".ply"}

\* f.endswith(ext)
EndsWith(f, ext) ==
    \/ f.ext = ext
    \/ f.ext = "_3dbbox.json" /\ ext = ".json"

\* os.path.splitext(f)[0]
Splitext(f) ==
    IF f.ext = "_3dbbox.json" THEN <<f.ts, "_3dbbox">> ELSE <<f.ts, "">>

\* "_3dbbox.json" in f
IsBBoxFile(f) == f.ext = "_3dbbox.json"

\* f.split("_3dbbox.json")[0], for a name that holds "_3dbbox.json"
BBoxBaseTs(f) == <<f.ts, "">>

\* "instance" in sensor_folder
IsInstanceFolder(s) == s \in {"instance_cam"}

(***************************************************************************)
(* clean_scene_data, first loop: the per-folder timestamp sets.            *)
(***************************************************************************)
\* the first loop without its `if "instance" in sensor_folder: continue`
CountedFilesNoInstanceSkip(impl, dir, s) ==
    {f \in dir[s] :
        /\ \E ext \in SupportedExts : EndsWith(f, ext)
        /\ (impl = "sensor_processing" => ~IsBBoxFile(f))
        /\ (EndsWith(f, ".ply") =>
                [ts |-> f.ts, ext |-> ".npy"] \in dir[s])}

\* the files of folder s that the first loop appends to `files`
\* (multi_sensor_collection.py has no "_3dbbox.json" test)
CountedFiles(impl, dir, s) ==
    IF IsInstanceFolder(s) THEN {}
    ELSE {f \in dir[s] :
            /\ \E ext \in SupportedExts : EndsWith(f, ext)
            /\ (impl = "sensor_processing" => ~IsBBoxFile(f))
            /\ (EndsWith(f, ".ply") =>
                    [ts |-> f.ts, ext |-> ".npy"] \in dir[s])}

\* ts_set of folder s
TsSet(impl, dir, s) == {Splitext(f) : f \in CountedFiles(impl, dir, s)}

\* ts_dict: only existing folders with a non-empty ts_set get an entry
TsDictKeys(impl, names, dirs, dir) ==
    {s \in names : dirs[s] /\ TsSet(impl, dir, s) # {}}

\* set.intersection(*ts_dict.values()), for a non-empty ts_dict
CommonTsUnion(impl, keys, dir) == UNION {TsSet(impl, dir, s) : s \in keys}
CommonTs(impl, keys, dir) ==
    {b \in UNION {TsSet(impl, dir, s) : s \in keys} :
        \A s \in keys : b \in TsSet(impl, dir, s)}

(***************************************************************************)
(* clean_scene_data, second loop: what stays in a folder.                  *)
(***************************************************************************)
\* the test of the deletion loop inverted
KeepsFileInverted(impl, f, common) == Splitext(f) \notin common

\* (multi_sensor_collection.py compares the base name only)
KeepsFile(impl, f, common) ==
    \/ impl = "sensor_processing" /\ IsBBoxFile(f) /\ BBoxBaseTs(f) \in common
    \/ Splitext(f) \in common

\* the deletion loop left after the first folder in which it deleted a file
PrunedOneFolder(impl, names, dirs, dir, common) ==
    LET dirty == {s \in names : dirs[s] /\ \E f \in dir[s] :
                                    ~KeepsFile(impl, f, common)}
        first == IF dirty = {} THEN {} ELSE {CHOOSE s \in dirty : TRUE} IN
    [s \in DOMAIN dir |->
        IF s \in first
        THEN {f \in dir[s] : KeepsFile(impl, f, common)}
        ELSE dir[s]]

\* the directory after the deletion loop
Pruned(impl, names, dirs, dir, common) ==
    [s \in DOMAIN dir |->
        IF s \in names /\ dirs[s]
        THEN {f \in dir[s] : KeepsFile(impl, f, common)}
        ELSE dir[s]]

\* the whole function: the directory it leaves and what it printed
\* the function without its `if not common_ts: return`
CleanResultNoCommonCheck(impl, names, dirs, dir) ==
    LET keys == TsDictKeys(impl, names, dirs, dir) IN
    IF keys = {} THEN [dir |-> dir, out |-> "warn_no_valid_files"]
    ELSE LET after == Pruned(impl, names, dirs, dir, CommonTs(impl, keys, dir)) IN
         [dir |-> after,
          out |-> IF after # dir THEN "cleaned" ELSE "synchronized"]
CleanResult(impl, names, dirs, dir) ==
    LET keys == TsDictKeys(impl, names, dirs, dir) IN
    IF keys = {} THEN [dir |-> dir, out |-> "warn_no_valid_files"]
    ELSE LET common == CommonTs(impl, keys, dir) IN
         IF common = {} THEN [dir |-> dir, out |-> "warn_no_common"]
         ELSE LET after == Pruned(impl, names, dirs, dir, common) IN
              [dir |-> after,
               out |-> IF after # dir THEN "cleaned" ELSE "synchronized"]

Range(seq) == {seq[i] : i \in DOMAIN seq}

clean_scene_data ==
    /\ clean_pc = "ready"
    /\ LET r == CleanResult(clean_impl, Range(sensor_names), isdir, files) IN
         /\ files' = r.dir
         /\ clean_out' = r.out
    /\ before' = files
    /\ clean_pc' = "done"
    /\ UNCHANGED <<sensor_names, isdir, clean_impl>>
    /\ UNCHANGED <<geomVars, actorVars, runVars, spawnVars, mainVars>>

\* clean_scene_data called once more on the same scene directory with the
\* same sensor names, as main does for a path that scene_paths holds twice
\* (multi_sensor_collection.py lines 484-486, 551-553)
clean_scene_data_again ==
    /\ clean_pc = "done"
    /\ LET r == CleanResult(clean_impl, Range(sensor_names), isdir, files) IN
         /\ files' = r.dir
         /\ clean_out' = r.out
    /\ clean_pc' = "done_again"
    /\ UNCHANGED <<sensor_names, isdir, clean_impl, before>>
    /\ UNCHANGED <<geomVars, actorVars, runVars, spawnVars, mainVars>>

(***************************************************************************)
(* run_simulation: the tick loop and its rendezvous on the sensor queue.   *)
(*                                                                         *)
(* A token is [ts, name, src, fresh]: ts and name are what sensor_callback *)
(* puts; src (the sensor actor that produced it) and fresh (it was         *)
(* produced from the frame of the latest world.tick()) only record where   *)
(* it came from.  ts is "t_ms" for int(sensor_data.timestamp * 1e3) and    *)
(* "0" for the dummy token of a callback that raised.                      *)
(***************************************************************************)
NumSensors == Len(sensors_config)

EmptyDict == [n \in {} |-> 0]

\* a dict keyed by the name together with the sensor the token came from
DictPutPerSensor(d, k, v) ==
    [n \in DOMAIN d \cup {<<k, v.src>>} |-> IF n = <<k, v.src>> THEN v ELSE d[n]]

\* dict[key] = value
DictPut(d, k, v) == [n \in DOMAIN d \cup {k} |-> IF n = k THEN v ELSE d[n]]

\* where the for loop goes when an iteration is over
NextIter(t) == IF t < ticks_per_scene THEN "tick" ELSE "finally"

\* the wait left one sensor short: len(received_sensors) < len(sensor_list) - 1
WaitOverOneShort(rcv) == ~(Cardinality(DOMAIN rcv) < Len(sensor_list) - 1)

\* while len(received_sensors) < len(sensor_list)
WaitOver(rcv) == ~(Cardinality(DOMAIN rcv) < Len(sensor_list))

\* the tokens of the queue once the world has moved to the next frame
Aged(q) == [i \in DOMAIN q |-> [q[i] EXCEPT !.fresh = FALSE]]

\* the callbacks outstanding after world.tick(): one for the new frame per
\* listening sensor, besides one of an older frame not yet invoked
AfterTick(pnd) ==
    [i \in DOMAIN pnd |->
        (IF pnd[i] # {} THEN {FALSE} ELSE {})
            \cup (IF i \in sensor_alive THEN {TRUE} ELSE {})]

\* world.tick() .. received_sensors = {} (lines 22-30)
RsWorldTick ==
    /\ rs_pc = "tick"
    /\ tick < ticks_per_scene
    /\ tick' = tick + 1
    /\ sensor_queue' = Aged(sensor_queue)
    /\ pending' = AfterTick(pending)
    /\ received_sensors' = EmptyDict
    /\ gets' = 0
    /\ IF WaitOver(EmptyDict)
       THEN tick_out' = "complete" /\ rs_pc' = NextIter(tick + 1)
       ELSE tick_out' = "waiting" /\ rs_pc' = "wait"
    /\ UNCHANGED <<sensors_config, ticks_per_scene, rs_exc>>
    /\ UNCHANGED <<geomVars, cleanVars, actorVars, spawnVars, mainVars>>

\* world.tick() or world.get_snapshot() raises: except Exception (line 45)
RsTickRaises ==
    /\ rs_pc = "tick"
    /\ tick < ticks_per_scene
    /\ rs_exc' = "caught"
    /\ rs_pc' = "finally"
    /\ UNCHANGED <<sensors_config, ticks_per_scene, tick, sensor_queue,
                   received_sensors, pending, tick_out, gets>>
    /\ UNCHANGED <<geomVars, cleanVars, actorVars, spawnVars, mainVars>>

\* a KeyboardInterrupt inside the try: not an Exception, only `finally` runs
RsInterrupt ==
    /\ rs_pc \in {"tick", "wait"}
    /\ rs_exc' = "KeyboardInterrupt"
    /\ rs_pc' = "finally"
    /\ UNCHANGED <<sensors_config, ticks_per_scene, tick, sensor_queue,
                   received_sensors, pending, tick_out, gets>>
    /\ UNCHANGED <<geomVars, cleanVars, actorVars, spawnVars, mainVars>>

\* sensor_queue.get(True, 1.0) returns a token (lines 35-36)
RsQueueGet ==
    /\ rs_pc = "wait"
    /\ sensor_queue # <<>>
    /\ LET tok == Head(sensor_queue)
           rcv == DictPut(received_sensors, tok.name, tok) IN
         /\ received_sensors' = rcv
         /\ IF WaitOver(rcv)
            THEN tick_out' = "complete" /\ rs_pc' = NextIter(tick)
            ELSE tick_out' = tick_out /\ rs_pc' = rs_pc
    /\ sensor_queue' = Tail(sensor_queue)
    /\ gets' = gets + 1
    /\ UNCHANGED <<sensors_config, ticks_per_scene, rs_exc, tick, pending>>
    /\ UNCHANGED <<geomVars, cleanVars, actorVars, spawnVars, mainVars>>

\* the Empty handler without its `break`: the loop waits again
RsGetTimeoutNoBreak ==
    /\ rs_pc = "wait"
    /\ sensor_queue = <<>>
    /\ tick_out' = "missed"
    /\ UNCHANGED <<sensors_config, ticks_per_scene, rs_pc, rs_exc, tick, sensor_queue,
                   received_sensors, pending, gets>>
    /\ UNCHANGED <<geomVars, cleanVars, actorVars, spawnVars, mainVars>>
\* sensor_queue.get(True) without a timeout: an empty queue blocks
RsGetBlocks ==
    /\ FALSE
    /\ UNCHANGED vars
\* sensor_queue.get(True, 1.0) raises Empty: nothing was put for a second
\* (lines 37-39)
RsGetTimeout ==
    /\ rs_pc = "wait"
    /\ sensor_queue = <<>>
    /\ tick_out' = "missed"
    /\ rs_pc' = NextIter(tick)
    /\ UNCHANGED <<sensors_config, ticks_per_scene, rs_exc, tick, sensor_queue,
                   received_sensors, pending, gets>>
    /\ UNCHANGED <<geomVars, cleanVars, actorVars, spawnVars, mainVars>>

\* the sensors of the list on which destroy() is invoked, without the
\* `if sensor.is_alive` test
DestroyedSensorsUnguarded(list, alive) == Range(list)

\* the sensors of the list on which destroy() is invoked:
\* `for sensor in sensor_list: if sensor.is_alive: sensor.destroy()`
DestroyedSensors(list, alive) == {a \in Range(list) : a \in alive}

\* vehicle.destroy() is invoked:
\* `if vehicle is not None and vehicle.is_alive` (in main also
\* `'vehicle' in locals()`)
DestroysVehicle(v) == v = "alive"

\* finally: destroy the sensors and the vehicle that are alive (lines 48-56)
RsFinally ==
    /\ rs_pc = "finally"
    /\ sensor_alive' = sensor_alive \ DestroyedSensors(sensor_list, sensor_alive)
    /\ ego' = IF DestroysVehicle(ego) THEN "dead" ELSE ego
    /\ pending' = [i \in DOMAIN pending |->
                     IF i \in Range(sensor_list) THEN {} ELSE pending[i]]
    /\ rs_pc' = IF rs_exc = "KeyboardInterrupt" THEN "raised" ELSE "returned"
    /\ UNCHANGED <<sensors_config, ticks_per_scene, rs_exc, tick, sensor_queue,
                   received_sensors, tick_out, gets, sensor_list>>
    /\ UNCHANGED <<geomVars, cleanVars, spawnVars, mainVars>>

\* the token of a callback whose lambda reads the loop variable `sensor`
\* when it is called: the name of the last configured sensor
SensorCallbackTokenLateBound(i, fresh, ok) ==
    [ts |-> IF ok THEN "t_ms" ELSE "0", name |-> sensors_config[NumSensors],
     src |-> i, fresh |-> fresh]

\* sensor_callback, invoked by the simulator for sensor i with the data of
\* the latest frame (fresh) or of an older one; saving succeeds or raises,
\* and either way one token is put (sensor_processing.py lines 41-135)
SensorCallbackToken(i, fresh, ok) ==
    [ts |-> IF ok THEN "t_ms" ELSE "0", name |-> sensors_config[i],
     src |-> i, fresh |-> fresh]

sensor_callback(i, fresh, ok) ==
    /\ fresh \in pending[i]
    /\ Len(sensor_queue) < MaxQueue
    /\ pending' = [pending EXCEPT ![i] = pending[i] \ {fresh}]
    /\ sensor_queue' = Append(sensor_queue, SensorCallbackToken(i, fresh, ok))
    /\ UNCHANGED <<sensors_config, ticks_per_scene, rs_pc, rs_exc, tick,
                   received_sensors, tick_out, gets>>
    /\ UNCHANGED <<geomVars, cleanVars, actorVars, spawnVars, mainVars>>

\* nothing of bounding_box_export.py is running
GeomIdle ==
    /\ lb_args = <<>>
    /\ lb_ret = <<>>
    /\ gip_args = <<>>
    /\ gip_ret = <<>>
    /\ ex_pc = "idle"
    /\ vehicles = <<>>
    /\ ex_i = 0
    /\ output_data = <<>>

\* nothing of run_simulation is running
RunIdle ==
    /\ sensors_config = <<>>
    /\ sensor_list = <<>>
    /\ sensor_alive = {}
    /\ ego = "unbound"
    /\ ticks_per_scene = 0
    /\ rs_pc = "idle"
    /\ rs_exc = "none"
    /\ tick = 0
    /\ sensor_queue = <<>>
    /\ received_sensors = EmptyDict
    /\ pending = <<>>
    /\ tick_out = "none"
    /\ gets = 0

\* main is not running
MainIdle ==
    /\ main_pc = "idle"
    /\ scene_id = 0
    /\ scene_retry = 0
    /\ scene_completed = FALSE
    /\ scene_paths = <<>>
    /\ flow = "none"
    /\ retry = 0
    /\ sp_idx = 0
    /\ sp_successes = 0
    /\ sweep_ticks = 0
    /\ warm = 0
    /\ orphans = 0
    /\ completed = {}
    /\ failed = {}
    /\ clean_idx = 0

CleanIdle ==
    /\ sensor_names = <<>>
    /\ isdir = EmptyDict
    /\ files = EmptyDict
    /\ before = EmptyDict
    /\ clean_impl = "sensor_processing"
    /\ clean_pc = "idle"
    /\ clean_out = "none"

SensorNames == {"cam", "lidar"}

\* run_simulation is entered with two attached, listening sensors, a live
\* vehicle and an empty queue; two sensors may carry the same name
InitRun ==
    /\ CleanIdle
    /\ MainIdle
    /\ GeomIdle
    /\ sensors_config \in [1..2 -> SensorNames]
    /\ sensor_list = <<1, 2>>
    /\ sensor_alive = {1, 2}
    /\ ego = "alive"
    /\ ticks_per_scene = RunTicks
    /\ rs_pc = NextIter(0)
    /\ rs_exc = "none"
    /\ tick = 0
    /\ sensor_queue = <<>>
    /\ received_sensors = EmptyDict
    /\ pending = [i \in 1..2 |-> {}]
    /\ tick_out = "none"
    /\ gets = 0

TickLoopStep ==
    \/ RsWorldTick
    \/ RsQueueGet
    \/ RsGetTimeout
    \/ RsFinally

NextRun ==
    \/ TickLoopStep
    \/ RsTickRaises
    \/ RsInterrupt
    \/ \E i \in DOMAIN pending, fresh \in BOOLEAN, ok \in BOOLEAN :
          sensor_callback(i, fresh, ok)

SpecRun == InitRun /\ [][NextRun]_vars

\* the controlling thread keeps running: world.tick() returns, a queue get
\* returns a token or times out after one second, the finally block runs
SpecRunFair == SpecRun /\ WF_vars(TickLoopStep)

(***************************************************************************)
(* Scene directories clean_scene_data may be handed.                       *)
(***************************************************************************)
\* the file names a folder of each sensor can hold
PossibleFiles(s) ==
    CASE s = "cam" ->
            [ts : Timestamps, ext : {".png"}]
                \cup [ts : SideTimestamps, ext : {"_3dbbox.json"}]
      [] s = "lidar" ->
            [ts : Timestamps, ext : {".npy"}]
                \cup [ts : SideTimestamps, ext : {".ply"}]
      [] s = "gnss" -> [ts : Timestamps, ext : {".json"}]
      [] OTHER -> [ts : Timestamps, ext : {".png"}]

SensorConfigs == {<<"cam", "lidar", "gnss">>, <<"cam", "instance_cam", "lidar">>}

\* a folder is missing, or it exists and holds any of its possible files
FolderStates(s) ==
    {[isdir |-> TRUE, files |-> F] : F \in SUBSET PossibleFiles(s)}
        \cup {[isdir |-> FALSE, files |-> {}]}

InitClean ==
    \E c \in SensorConfigs :
      \E a \in FolderStates(c[1]), b \in FolderStates(c[2]),
         d \in FolderStates(c[3]) :
        LET st == [s \in Range(c) |->
                     IF s = c[1] THEN a ELSE IF s = c[2] THEN b ELSE d] IN
        /\ sensor_names = c
        /\ isdir = [s \in Range(c) |-> st[s].isdir]
        /\ files = [s \in Range(c) |-> st[s].files]
        /\ before = [s \in Range(c) |-> st[s].files]
        /\ clean_impl = "sensor_processing"
        /\ clean_pc = "ready"
        /\ clean_out = "none"
        /\ RunIdle
        /\ MainIdle
        /\ GeomIdle

\* the two implementations of clean_scene_data in the repository
CleanImpls == {"sensor_processing", "multi_sensor_collection"}

\* the same directories, handed to either implementation
InitCleanAny ==
    \E c \in SensorConfigs :
      \E a \in FolderStates(c[1]), b \in FolderStates(c[2]),
         d \in FolderStates(c[3]) :
        LET st == [s \in Range(c) |->
                     IF s = c[1] THEN a ELSE IF s = c[2] THEN b ELSE d] IN
        /\ sensor_names = c
        /\ isdir = [s \in Range(c) |-> st[s].isdir]
        /\ files = [s \in Range(c) |-> st[s].files]
        /\ before = [s \in Range(c) |-> st[s].files]
        /\ clean_impl \in CleanImpls
        /\ clean_pc = "ready"
        /\ clean_out = "none"
        /\ RunIdle
        /\ MainIdle
        /\ GeomIdle

NextClean ==
    \/ clean_scene_data
    \/ clean_scene_data_again

SpecClean == InitClean /\ [][NextClean]_vars
SpecCleanAny == InitCleanAny /\ [][NextClean]_vars

(***************************************************************************)
(* main of multi_sensor_collection.py: the scene loop (lines 477-548).     *)
(***************************************************************************)
\* the except handlers of the retry loop: `continue` while attempts remain
\* (lines 496-501 and 533-537)
HandlerFlow == IF scene_retry < MaxSceneRetries - 1 THEN "retry" ELSE "give_up"

\* top of the try block: folders, scene_paths.append, a new Queue, and the
\* call of spawn_ego_vehicle (lines 482-493, 397-403)
MainAttempt ==
    /\ main_pc = "attempt"
    /\ scene_paths' = Append(scene_paths, scene_id)
    /\ sensor_queue' = <<>>
    /\ flow' = "none"
    /\ main_pc' = "spawn_ego"
    /\ UNCHANGED <<scene_id, scene_retry, scene_completed, warm, completed,
                   failed, clean_idx>>
    /\ UNCHANGED <<sensors_config, ticks_per_scene, rs_pc, rs_exc, tick,
                   received_sensors, pending, tick_out, gets>>
    /\ UNCHANGED <<geomVars, cleanVars, actorVars, spawnVars>>

\* spawn_ego_vehicle: world.try_spawn_actor returns None or raises; the next
\* spawn point is tried (lines 410-419)
SpawnPointFails ==
    /\ main_pc = "spawn_ego"
    /\ retry < MaxRetries
    /\ sp_idx < NumSpawnPoints
    /\ sp_idx' = sp_idx + 1
    /\ UNCHANGED <<retry, sp_successes, sweep_ticks, orphans>>
    /\ UNCHANGED <<geomVars, cleanVars, actorVars, runVars, mainVars>>

\* spawn_ego_vehicle: try_spawn_actor returns a vehicle, set_autopilot
\* succeeds, the vehicle is returned and bound to `vehicle` (lines 412-417,
\* 493); the call is over and its locals go back to their initial values
SpawnPointWorks ==
    /\ main_pc = "spawn_ego"
    /\ retry < MaxRetries
    /\ sp_idx < NumSpawnPoints
    /\ ego' = "alive"
    /\ main_pc' = "stabilize"
    /\ retry' = 0
    /\ sp_idx' = 0
    /\ sp_successes' = 0
    /\ sweep_ticks' = 0
    /\ UNCHANGED orphans
    /\ UNCHANGED <<scene_id, scene_retry, scene_completed, scene_paths, flow,
                   warm, completed, failed, clean_idx>>
    /\ UNCHANGED <<geomVars, cleanVars, runVars, sensor_list, sensor_alive>>

\* spawn_ego_vehicle: try_spawn_actor returns a vehicle but set_autopilot
\* raises; `except Exception: continue` goes on to the next spawn point and
\* the vehicle just spawned is referred to by nothing (lines 412-419)
SpawnPointAutopilotRaises ==
    /\ main_pc = "spawn_ego"
    /\ retry < MaxRetries
    /\ sp_idx < NumSpawnPoints
    /\ orphans < MaxOrphans
    /\ sp_successes' = sp_successes + 1
    /\ orphans' = orphans + 1
    /\ sp_idx' = sp_idx + 1
    /\ UNCHANGED <<retry, sweep_ticks>>
    /\ UNCHANGED <<geomVars, cleanVars, actorVars, runVars, mainVars>>

\* spawn_ego_vehicle: no spawn point worked in this sweep; world.tick(),
\* sleep, next sweep (lines 421-424)
SpawnSweepFailed ==
    /\ main_pc = "spawn_ego"
    /\ retry < MaxRetries
    /\ sp_idx = NumSpawnPoints
    /\ sweep_ticks' = sweep_ticks + 1
    /\ retry' = retry + 1
    /\ sp_idx' = 0
    /\ UNCHANGED <<sp_successes, orphans>>
    /\ UNCHANGED <<geomVars, cleanVars, actorVars, runVars, mainVars>>

\* spawn_ego_vehicle raises RuntimeError after max_retries sweeps; main's
\* except RuntimeError retries the scene or gives it up (lines 426, 494-501)
SpawnExhausted ==
    /\ main_pc = "spawn_ego"
    /\ retry = MaxRetries
    /\ flow' = HandlerFlow
    /\ main_pc' = "finally"
    /\ UNCHANGED <<scene_id, scene_retry, scene_completed, scene_paths,
                   warm, completed, failed, clean_idx>>
    /\ UNCHANGED <<geomVars, cleanVars, actorVars, runVars, spawnVars>>

\* one warm-up world.tick() (lines 504-505)
MainStabilizeTick ==
    /\ main_pc = "stabilize"
    /\ warm < StabilizeTicks
    /\ warm' = warm + 1
    /\ UNCHANGED <<main_pc, scene_id, scene_retry, scene_completed, scene_paths,
                   flow, completed, failed, clean_idx>>
    /\ UNCHANGED <<geomVars, cleanVars, actorVars, runVars, spawnVars>>

\* the warm-up loop left before its StabilizeTicks ticks are done
MainStabilizedEarly ==
    /\ main_pc = "stabilize"
    /\ warm < StabilizeTicks
    /\ sensor_list' = <<>>
    /\ warm' = 0
    /\ main_pc' = "attach"
    /\ UNCHANGED <<scene_id, scene_retry, scene_completed, scene_paths,
                   flow, completed, failed, clean_idx>>
    /\ UNCHANGED <<geomVars, cleanVars, runVars, spawnVars, sensor_alive, ego>>
\* the warm-up loop is over; sensor_list = [] (lines 504-508)
MainStabilized ==
    /\ main_pc = "stabilize"
    /\ warm = StabilizeTicks
    /\ sensor_list' = <<>>
    /\ warm' = 0
    /\ main_pc' = "attach"
    /\ UNCHANGED <<scene_id, scene_retry, scene_completed, scene_paths,
                   flow, completed, failed, clean_idx>>
    /\ UNCHANGED <<geomVars, cleanVars, runVars, spawnVars, sensor_alive, ego>>

\* world.spawn_actor, sensor_list.append, actor.listen for the next sensor
\* of the config (lines 509-524)
MainAttachSensor ==
    /\ main_pc = "attach"
    /\ Len(sensor_list) < NumSensors
    /\ LET i == Len(sensor_list) + 1 IN
         /\ sensor_list' = Append(sensor_list, i)
         /\ sensor_alive' = sensor_alive \cup {i}
    /\ UNCHANGED ego
    /\ UNCHANGED <<geomVars, cleanVars, runVars, spawnVars, mainVars>>

\* the handler of `except Exception` giving the scene up at once
MainRaisesGivesUp ==
    /\ \/ main_pc = "stabilize" /\ warm < StabilizeTicks
       \/ main_pc = "attach" /\ Len(sensor_list) < NumSensors
    /\ flow' = "give_up"
    /\ main_pc' = "finally"
    /\ UNCHANGED <<scene_id, scene_retry, scene_completed, scene_paths,
                   warm, completed, failed, clean_idx>>
    /\ UNCHANGED <<geomVars, cleanVars, actorVars, runVars, spawnVars>>
\* an exception in the try block outside run_simulation: a warm-up
\* world.tick(), blueprint_library.find or world.spawn_actor raises; except
\* Exception retries the scene or gives it up (lines 531-537)
MainRaises ==
    /\ \/ main_pc = "stabilize" /\ warm < StabilizeTicks
       \/ main_pc = "attach" /\ Len(sensor_list) < NumSensors
    /\ flow' = HandlerFlow
    /\ main_pc' = "finally"
    /\ UNCHANGED <<scene_id, scene_retry, scene_completed, scene_paths,
                   warm, completed, failed, clean_idx>>
    /\ UNCHANGED <<geomVars, cleanVars, actorVars, runVars, spawnVars>>

\* a KeyboardInterrupt in the try block outside run_simulation: no handler
\* of the retry loop catches it, the finally block runs
MainInterrupt ==
    /\ main_pc \in {"spawn_ego", "stabilize", "attach"}
    /\ flow' = "interrupt"
    /\ main_pc' = "finally"
    /\ UNCHANGED <<scene_id, scene_retry, scene_completed, scene_paths,
                   warm, completed, failed, clean_idx>>
    /\ UNCHANGED <<geomVars, cleanVars, actorVars, runVars, spawnVars>>

\* run_simulation is called with the attached sensors (line 527)
MainCallRun ==
    /\ main_pc = "attach"
    /\ Len(sensor_list) = NumSensors
    /\ main_pc' = "run"
    /\ rs_pc' = NextIter(0)
    /\ UNCHANGED <<scene_id, scene_retry, scene_completed, scene_paths,
                   flow, warm, completed, failed, clean_idx>>
    /\ UNCHANGED <<sensors_config, ticks_per_scene, rs_exc, tick, sensor_queue,
                   received_sensors, pending, tick_out, gets>>
    /\ UNCHANGED <<geomVars, cleanVars, actorVars, spawnVars>>

\* one iteration of run_simulation's for loop run to its end: world.tick()
\* and the wait, which ends complete or on a timeout (lines 129-151)
RsIteration ==
    /\ main_pc = "run"
    /\ rs_pc = "tick"
    /\ tick < ticks_per_scene
    /\ tick' = tick + 1
    /\ tick_out' \in {"complete", "missed"}
    /\ rs_pc' = NextIter(tick + 1)
    /\ UNCHANGED <<sensors_config, ticks_per_scene, rs_exc, sensor_queue,
                   received_sensors, pending, gets>>
    /\ UNCHANGED <<geomVars, cleanVars, actorVars, spawnVars, mainVars>>

\* run_simulation returned: scene_completed = True; break (lines 528-529)
MainRunReturned ==
    /\ main_pc = "run"
    /\ rs_pc = "returned"
    /\ scene_completed' = TRUE
    /\ completed' = completed \cup {scene_id}
    /\ flow' = "completed"
    /\ main_pc' = "finally"
    /\ UNCHANGED <<scene_id, scene_retry, scene_paths, warm, failed, clean_idx>>
    /\ UNCHANGED <<geomVars, cleanVars, actorVars, runVars, spawnVars>>

\* a KeyboardInterrupt left run_simulation
MainRunInterrupted ==
    /\ main_pc = "run"
    /\ rs_pc = "raised"
    /\ flow' = "interrupt"
    /\ main_pc' = "finally"
    /\ UNCHANGED <<scene_id, scene_retry, scene_completed, scene_paths,
                   warm, completed, failed, clean_idx>>
    /\ UNCHANGED <<geomVars, cleanVars, actorVars, runVars, spawnVars>>

\* the finally block of the retry loop, then where the loop goes
\* (lines 538-545); the locals of spawn_ego_vehicle and run_simulation and
\* the warm-up counter are dead from here on and go back to their initial
\* values
MainFinally ==
    /\ main_pc = "finally"
    /\ ego' = IF DestroysVehicle(ego) THEN "dead" ELSE ego
    /\ sensor_alive' = sensor_alive \ DestroyedSensors(sensor_list, sensor_alive)
    /\ IF flow = "retry"
       THEN scene_retry' = scene_retry + 1 /\ main_pc' = "attempt"
       ELSE /\ scene_retry' = scene_retry
            /\ main_pc' = IF flow = "interrupt" THEN "exit" ELSE "after_loop"
    /\ retry' = 0
    /\ sp_idx' = 0
    /\ sp_successes' = 0
    /\ sweep_ticks' = 0
    /\ warm' = 0
    /\ rs_pc' = "idle"
    /\ rs_exc' = "none"
    /\ tick' = 0
    /\ tick_out' = "none"
    /\ UNCHANGED <<scene_id, scene_completed, scene_paths, flow,
                   completed, failed, clean_idx, orphans>>
    /\ UNCHANGED <<sensors_config, ticks_per_scene, sensor_queue,
                   received_sensors, pending, gets>>
    /\ UNCHANGED <<geomVars, cleanVars, sensor_list>>

\* `if not scene_completed` with the scene named as failed, with no next
\* scene tried after a failed one
MainAfterLoopStopsOnFailure ==
    /\ main_pc = "after_loop"
    /\ failed' = IF scene_completed THEN failed ELSE failed \cup {scene_id}
    /\ IF scene_id < NumScenes /\ scene_completed
       THEN /\ scene_id' = scene_id + 1
            /\ scene_retry' = 0
            /\ scene_completed' = FALSE
            /\ main_pc' = "attempt"
       ELSE /\ main_pc' = "clean"
            /\ UNCHANGED <<scene_id, scene_retry, scene_completed>>
    /\ UNCHANGED <<scene_paths, flow, warm, completed, clean_idx>>
    /\ UNCHANGED <<geomVars, cleanVars, actorVars, runVars, spawnVars>>
\* after the retry loop: `if not scene_completed` names the scene as failed;
\* then the next scene id, or the end of the scene loop (lines 477-479,
\* 547-548)
MainAfterLoop ==
    /\ main_pc = "after_loop"
    /\ failed' = IF scene_completed THEN failed ELSE failed \cup {scene_id}
    /\ IF scene_id < NumScenes
       THEN /\ scene_id' = scene_id + 1
            /\ scene_retry' = 0
            /\ scene_completed' = FALSE
            /\ main_pc' = "attempt"
       ELSE /\ main_pc' = "clean"
            /\ UNCHANGED <<scene_id, scene_retry, scene_completed>>
    /\ UNCHANGED <<scene_paths, flow, warm, completed, clean_idx>>
    /\ UNCHANGED <<geomVars, cleanVars, actorVars, runVars, spawnVars>>

\* clean_scene_data(path, sensor_names) for the next entry of scene_paths
\* (lines 551-553)
MainCleanScene ==
    /\ main_pc = "clean"
    /\ clean_idx < Len(scene_paths)
    /\ clean_idx' = clean_idx + 1
    /\ UNCHANGED <<main_pc, scene_id, scene_retry, scene_completed, scene_paths,
                   flow, warm, completed, failed>>
    /\ UNCHANGED <<geomVars, cleanVars, actorVars, runVars, spawnVars>>

\* the end of main (lines 554-571)
MainExit ==
    /\ main_pc = "clean"
    /\ clean_idx = Len(scene_paths)
    /\ main_pc' = "exit"
    /\ UNCHANGED <<scene_id, scene_retry, scene_completed, scene_paths,
                   flow, warm, completed, failed, clean_idx>>
    /\ UNCHANGED <<geomVars, cleanVars, actorVars, runVars, spawnVars>>

\* the scene loop is entered: scene 1, first attempt (lines 475-481)
Init ==
    /\ CleanIdle
    /\ GeomIdle
    /\ sensors_config = <<"cam", "lidar">>
    /\ sensor_list = <<>>
    /\ sensor_alive = {}
    /\ ego = "unbound"
    /\ ticks_per_scene = SecondsPerScene * TickRate
    /\ rs_pc = "idle"
    /\ rs_exc = "none"
    /\ tick = 0
    /\ sensor_queue = <<>>
    /\ received_sensors = EmptyDict
    /\ pending = <<>>
    /\ tick_out = "none"
    /\ gets = 0
    /\ main_pc = "attempt"
    /\ scene_id = 1
    /\ scene_retry = 0
    /\ scene_completed = FALSE
    /\ scene_paths = <<>>
    /\ flow = "none"
    /\ retry = 0
    /\ sp_idx = 0
    /\ sp_successes = 0
    /\ sweep_ticks = 0
    /\ warm = 0
    /\ orphans = 0
    /\ completed = {}
    /\ failed = {}
    /\ clean_idx = 0

Next ==
    \/ MainAttempt
    \/ SpawnPointFails
    \/ SpawnPointWorks
    \/ SpawnPointAutopilotRaises
    \/ SpawnSweepFailed
    \/ SpawnExhausted
    \/ MainStabilizeTick
    \/ MainStabilized
    \/ MainAttachSensor
    \/ MainRaises
    \/ MainInterrupt
    \/ MainCallRun
    \/ RsIteration
    \/ RsTickRaises
    \/ RsInterrupt
    \/ RsFinally
    \/ MainRunReturned
    \/ MainRunInterrupted
    \/ MainFinally
    \/ MainAfterLoop
    \/ MainCleanScene
    \/ MainExit

Spec == Init /\ [][Next]_vars

(***************************************************************************)
(* bounding_box_export.py: liang_barsky_clip (lines 7-33).                 *)
(* Coordinates are integers; t0, t1 and the clipped coordinates are exact  *)
(* fractions <<numerator, denominator>> with a positive denominator.       *)
(***************************************************************************)
\* q / p
Frac(q, p) == IF p > 0 THEN <<q, p>> ELSE <<-q, -p>>

FracLess(a, b) == a[1] * b[2] < b[1] * a[2]

FracEq(a, b) == a[1] * b[2] = b[1] * a[2]

Abs(n) == IF n < 0 THEN -n ELSE n

\* t * d, the start coordinate left out
AlongFromOrigin(x, t, d) == <<t[1] * d, t[2]>>
\* x + t * d
Along(x, t, d) == <<x * t[2] + t[1] * d, t[2]>>

\* abs(a - b) < 1e-6, that is |n| * 1e6 < d for a - b = n / d
DegenerateAxis(a, b) ==
    Abs(a[1] * b[2] - b[1] * a[2]) <= (a[2] * b[2] - 1) \div DegenerateTolDen

\* the tuple `checks` (lines 12-15)
Checks(x1, y1, x2, y2, x_min, y_min, x_max, y_max) ==
    LET dx == x2 - x1
        dy == y2 - y1
    IN  << <<-dx, x1 - x_min>>, <<dx, x_max - x1>>,
           <<-dy, y1 - y_min>>, <<dy, y_max - y1>> >>

\* the loop body with t0, t1 tightened and no rejection
ClipStepNoReject(st, p, q) ==
    IF ~st.live \/ p = 0 THEN st
    ELSE LET r == Frac(q, p) IN
         IF p < 0
         THEN IF FracLess(st.t0, r) THEN [st EXCEPT !.t0 = r] ELSE st
         ELSE IF FracLess(r, st.t1) THEN [st EXCEPT !.t1 = r] ELSE st
\* the loop body with the rejections kept and t0, t1 never tightened
ClipStepNoTighten(st, p, q) ==
    IF ~st.live THEN st
    ELSE IF p = 0
         THEN IF q < 0 THEN [st EXCEPT !.live = FALSE] ELSE st
         ELSE LET r == Frac(q, p) IN
              IF p < 0
              THEN IF FracLess(st.t1, r) THEN [st EXCEPT !.live = FALSE] ELSE st
              ELSE IF FracLess(r, st.t0) THEN [st EXCEPT !.live = FALSE] ELSE st
\* one pass of the loop body on (p, q); st.live is false once the function
\* has returned None (lines 17-25)
ClipStep(st, p, q) ==
    IF ~st.live THEN st
    ELSE IF p = 0
         THEN IF q < 0 THEN [st EXCEPT !.live = FALSE] ELSE st
         ELSE LET r == Frac(q, p) IN
              IF p < 0
              THEN IF FracLess(st.t1, r) THEN [st EXCEPT !.live = FALSE]
                   ELSE IF FracLess(st.t0, r) THEN [st EXCEPT !.t0 = r] ELSE st
              ELSE IF FracLess(r, st.t0) THEN [st EXCEPT !.live = FALSE]
                   ELSE IF FracLess(r, st.t1) THEN [st EXCEPT !.t1 = r] ELSE st

\* `for p, q in checks` from the i-th pair on
RECURSIVE ClipLoop(_, _, _)
ClipLoop(st, checks, i) ==
    IF i > Len(checks) THEN st
    ELSE ClipLoop(ClipStep(st, checks[i][1], checks[i][2]), checks, i + 1)

\* the value `None`
NoSegment == [none |-> TRUE, p1 |-> << <<0, 1>>, <<0, 1>> >>,
                             p2 |-> << <<0, 1>>, <<0, 1>> >>]

\* liang_barsky_clip(x1, y1, x2, y2, x_min, y_min, x_max, y_max)
liang_barsky_clip(x1, y1, x2, y2, x_min, y_min, x_max, y_max) ==
    LET dx == x2 - x1
        dy == y2 - y1
        st == ClipLoop([live |-> TRUE, t0 |-> <<0, 1>>, t1 |-> <<1, 1>>],
                       Checks(x1, y1, x2, y2, x_min, y_min, x_max, y_max), 1)
        clipped_x1 == Along(x1, st.t0, dx)
        clipped_y1 == Along(y1, st.t0, dy)
        clipped_x2 == Along(x1, st.t1, dx)
        clipped_y2 == Along(y1, st.t1, dy)
    IN  IF ~st.live THEN NoSegment
        ELSE IF DegenerateAxis(clipped_x1, clipped_x2)
                /\ DegenerateAxis(clipped_y1, clipped_y2)
             THEN NoSegment
             ELSE [none |-> FALSE, p1 |-> <<clipped_x1, clipped_y1>>,
                                   p2 |-> <<clipped_x2, clipped_y2>>]

\* coordinates of segment endpoints
Coords == (0 - 1)..MaxCoord

\* the arguments of a call: any segment, any viewport with a positive area
ClipArgs ==
    [x1 : Coords, y1 : Coords, x2 : Coords, y2 : Coords,
     x_min : 0..1, y_min : 0..1, x_max : 1..(MaxCoord - 1), y_max : 1..(MaxCoord - 1)]

\* liang_barsky_clip is called on lb_args and returns
ClipCall ==
    /\ lb_args # <<>>
    /\ lb_ret = <<>>
    /\ lb_ret' = liang_barsky_clip(lb_args.x1, lb_args.y1, lb_args.x2, lb_args.y2,
                                   lb_args.x_min, lb_args.y_min,
                                   lb_args.x_max, lb_args.y_max)
    /\ UNCHANGED <<lb_args, gip_args, gip_ret, ex_pc, vehicles, ex_i, output_data>>
    /\ UNCHANGED <<cleanVars, actorVars, runVars, spawnVars, mainVars>>

InitClip ==
    /\ lb_args \in {a \in ClipArgs : a.x_min < a.x_max /\ a.y_min < a.y_max}
    /\ lb_ret = <<>>
    /\ gip_args = <<>>
    /\ gip_ret = <<>>
    /\ ex_pc = "idle"
    /\ vehicles = <<>>
    /\ ex_i = 0
    /\ output_data = <<>>
    /\ CleanIdle
    /\ RunIdle
    /\ MainIdle

NextClip == ClipCall

SpecClip == InitClip /\ [][NextClip]_vars

(***************************************************************************)
(* liang_barsky_clip in floating point.  The definitions above compute     *)
(* with exact fractions; here the quotient r = q / p is rounded as a       *)
(* float division rounds it, to the nearest representable value (ties to   *)
(* even).  A double carries 52 fraction bits; the model carries            *)
(* MantissaBits of them, so the representable values are the multiples of  *)
(* 1 / Ulp.  The endpoints x1 + t * dx are then exact for the integer      *)
(* coordinates of the model.                                               *)
(***************************************************************************)
Ulp == 2 ^ MantissaBits

\* q / p on floats: the multiple of 1 / Ulp nearest to the quotient
FloatDiv(q, p) ==
    LET n == IF p > 0 THEN q * Ulp ELSE (0 - q) * Ulp
        d == Abs(p)
        fl == n \div d
        rem == n - fl * d
    IN  IF 2 * rem < d THEN <<fl, Ulp>>
        ELSE IF 2 * rem > d THEN <<fl + 1, Ulp>>
        ELSE IF fl % 2 = 0 THEN <<fl, Ulp>> ELSE <<fl + 1, Ulp>>

\* one pass of the loop body on (p, q), r rounded (lines 17-25)
ClipStepFloat(st, p, q) ==
    IF ~st.live THEN st
    ELSE IF p = 0
         THEN IF q < 0 THEN [st EXCEPT !.live = FALSE] ELSE st
         ELSE LET r == FloatDiv(q, p) IN
              IF p < 0
              THEN IF FracLess(st.t1, r) THEN [st EXCEPT !.live = FALSE]
                   ELSE IF FracLess(st.t0, r) THEN [st EXCEPT !.t0 = r] ELSE st
              ELSE IF FracLess(r, st.t0) THEN [st EXCEPT !.live = FALSE]
                   ELSE IF FracLess(r, st.t1) THEN [st EXCEPT !.t1 = r] ELSE st

\* `for p, q in checks` from the i-th pair on
RECURSIVE ClipLoopFloat(_, _, _)
ClipLoopFloat(st, checks, i) ==
    IF i > Len(checks) THEN st
    ELSE ClipLoopFloat(ClipStepFloat(st, checks[i][1], checks[i][2]),
                       checks, i + 1)

\* liang_barsky_clip(x1, y1, x2, y2, x_min, y_min, x_max, y_max) on floats
liang_barsky_clip_float(x1, y1, x2, y2, x_min, y_min, x_max, y_max) ==
    LET dx == x2 - x1
        dy == y2 - y1
        st == ClipLoopFloat([live |-> TRUE, t0 |-> <<0, 1>>, t1 |-> <<1, 1>>],
                            Checks(x1, y1, x2, y2, x_min, y_min, x_max, y_max), 1)
        clipped_x1 == Along(x1, st.t0, dx)
        clipped_y1 == Along(y1, st.t0, dy)
        clipped_x2 == Along(x1, st.t1, dx)
        clipped_y2 == Along(y1, st.t1, dy)
    IN  IF ~st.live THEN NoSegment
        ELSE IF DegenerateAxis(clipped_x1, clipped_x2)
                /\ DegenerateAxis(clipped_y1, clipped_y2)
             THEN NoSegment
             ELSE [none |-> FALSE, p1 |-> <<clipped_x1, clipped_y1>>,
                                   p2 |-> <<clipped_x2, clipped_y2>>]

\* liang_barsky_clip is called on lb_args and returns, computing on floats
ClipCallFloat ==
    /\ lb_args # <<>>
    /\ lb_ret = <<>>
    /\ lb_ret' = liang_barsky_clip_float(lb_args.x1, lb_args.y1,
                                         lb_args.x2, lb_args.y2,
                                         lb_args.x_min, lb_args.y_min,
                                         lb_args.x_max, lb_args.y_max)
    /\ UNCHANGED <<lb_args, gip_args, gip_ret, ex_pc, vehicles, ex_i, output_data>>
    /\ UNCHANGED <<cleanVars, actorVars, runVars, spawnVars, mainVars>>

NextClipFloat == ClipCallFloat

SpecClipFloat == InitClip /\ [][NextClipFloat]_vars

(***************************************************************************)
(* bounding_box_export.py: get_image_point (lines 50-63).  Lengths are     *)
(* integers in units of 1e-4; K holds integers; pixel coordinates are      *)
(* exact fractions.                                                        *)
(***************************************************************************)
\* np.dot of a 4x4 matrix and a 4-vector
Dot4(m, v) == [i \in 1..4 |-> m[i][1] * v[1] + m[i][2] * v[2]
                              + m[i][3] * v[3] + m[i][4] * v[4]]

\* np.dot(K, point_camera) for K with focal length f and centre (cx, cy)
DotK(k, c) == <<k.focal * c[1] + k.cx * c[3], k.focal * c[2] + k.cy * c[3], c[3]>>

\* get_image_point with the depth of a vertex behind the camera left as it is
get_image_point_unclamped(loc, K, w2c) ==
    LET pch == Dot4(w2c, <<loc[1], loc[2], loc[3], UnitE4>>)
        is_behind == pch[1] <= EpsE4
        point_camera == <<pch[2], 0 - pch[3], pch[1]>>
        point_img == DotK(K, point_camera)
    IN  IF Abs(point_img[3]) < EpsE4
        THEN [img |-> << <<0 - SentinelPx, 1>>, <<0 - SentinelPx, 1>> >>,
              is_behind |-> TRUE, divisor |-> 1, finite |-> TRUE]
        ELSE [img |-> << Frac(point_img[1], point_img[3]),
                         Frac(point_img[2], point_img[3]) >>,
              is_behind |-> is_behind, divisor |-> point_img[3],
              finite |-> point_img[3] # 0]

\* get_image_point with the near-zero test made on the depth before it is
\* clamped
get_image_point_sentinel_first(loc, K, w2c) ==
    LET pch == Dot4(w2c, <<loc[1], loc[2], loc[3], UnitE4>>)
        is_behind == pch[1] <= EpsE4
        depth == IF is_behind THEN ClampE4 ELSE pch[1]
        point_camera == <<pch[2], 0 - pch[3], depth>>
        point_img == DotK(K, point_camera)
    IN  IF Abs(pch[1]) <= EpsE4
        THEN [img |-> << <<0 - SentinelPx, 1>>, <<0 - SentinelPx, 1>> >>,
              is_behind |-> TRUE, divisor |-> 1, finite |-> TRUE]
        ELSE [img |-> << Frac(point_img[1], point_img[3]),
                         Frac(point_img[2], point_img[3]) >>,
              is_behind |-> is_behind, divisor |-> point_img[3],
              finite |-> point_img[3] # 0]
\* get_image_point(loc, K, w2c): the returned pair, with the divisor of the
\* perspective divide and whether it was non-zero
get_image_point(loc, K, w2c) ==
    LET pch == Dot4(w2c, <<loc[1], loc[2], loc[3], UnitE4>>)
        is_behind == pch[1] <= EpsE4
        depth == IF is_behind THEN ClampE4 ELSE pch[1]
        point_camera == <<pch[2], 0 - pch[3], depth>>
        point_img == DotK(K, point_camera)
    IN  IF Abs(point_img[3]) < EpsE4
        THEN [img |-> << <<0 - SentinelPx, 1>>, <<0 - SentinelPx, 1>> >>,
              is_behind |-> TRUE, divisor |-> 1, finite |-> TRUE]
        ELSE [img |-> << Frac(point_img[1], point_img[3]),
                         Frac(point_img[2], point_img[3]) >>,
              is_behind |-> is_behind, divisor |-> point_img[3],
              finite |-> point_img[3] # 0]

\* world-to-camera matrices: the camera at the origin facing +x, the
\* camera turned by a quarter turn, the camera moved one length unit on
Identity4 == << <<1, 0, 0, 0>>, <<0, 1, 0, 0>>, <<0, 0, 1, 0>>, <<0, 0, 0, 1>> >>
W2CMatrices ==
    { Identity4,
      << <<0, 1, 0, 0>>, <<0 - 1, 0, 0, 0>>, <<0, 0, 1, 0>>, <<0, 0, 0, 1>> >>,
      << <<1, 0, 0, 0 - 1>>, <<0, 1, 0, 0>>, <<0, 0, 1, 0>>, <<0, 0, 0, 1>> >> }

\* build_projection_matrix(w, h, 90): focal = w / 2, centre (w / 2, h / 2)
Intrinsics == {[focal |-> 400, cx |-> 400, cy |-> 300],
               [focal |-> 1, cx |-> 1, cy |-> 1]}

\* coordinates of a vertex, in units of 1e-4
VertexCoords == {0 - FarE4, 0 - 1, 0, 1, 2, UnitE4, FarE4}

\* camera-space depth of the vertex of the call
CameraDepth(a) == Dot4(a.w2c, <<a.loc[1], a.loc[2], a.loc[3], UnitE4>>)[1]

\* get_image_point is called on gip_args and returns
ProjectCall ==
    /\ gip_args # <<>>
    /\ gip_ret = <<>>
    /\ gip_ret' = get_image_point(gip_args.loc, gip_args.K, gip_args.w2c)
    /\ UNCHANGED <<lb_args, lb_ret, gip_args, ex_pc, vehicles, ex_i, output_data>>
    /\ UNCHANGED <<cleanVars, actorVars, runVars, spawnVars, mainVars>>

InitProject ==
    /\ gip_args \in [loc : VertexCoords \X {0 - FarE4, 0, 1, FarE4} \X {0, FarE4},
                     K : Intrinsics, w2c : W2CMatrices]
    /\ gip_ret = <<>>
    /\ lb_args = <<>>
    /\ lb_ret = <<>>
    /\ ex_pc = "idle"
    /\ vehicles = <<>>
    /\ ex_i = 0
    /\ output_data = <<>>
    /\ CleanIdle
    /\ RunIdle
    /\ MainIdle

NextProject == ProjectCall

SpecProject == InitProject /\ [][NextProject]_vars

(***************************************************************************)
(* bounding_box_export.py: export_3d_bboxes (lines 65-160).  The camera    *)
(* stands at the origin and looks along +x; the image is ImageW x ImageH   *)
(* pixels with a field of view of 90 degrees.  An actor is a record        *)
(*   ego   : it is the ego vehicle (its id is ego_vehicle.id)              *)
(*   dist  : actor_loc.distance(ego_location), in length units             *)
(*   fwd   : forward.dot(ray)                                              *)
(*   fault : what dealing with the actor raises, and where                 *)
(*   box   : its bounding box <<xlo, xhi, ylo, yhi, zlo, zhi>> in world    *)
(*           coordinates, in length units                                  *)
(***************************************************************************)
\* EDGES_INDICES (lines 36-39), vertices numbered from 1
EDGES_INDICES ==
    << <<1, 2>>, <<2, 4>>, <<4, 3>>, <<3, 1>>, <<5, 6>>, <<6, 8>>, <<8, 7>>,
       <<7, 5>>, <<1, 5>>, <<2, 6>>, <<3, 7>>, <<4, 8>> >>

\* bb.get_world_vertices: the 8 corners, z changing fastest, then y, then x
WorldVertices(box) ==
    [i \in 1..8 |->
        << (IF i <= 4 THEN box[1] ELSE box[2]) * UnitE4,
           (IF (i - 1) % 4 < 2 THEN box[3] ELSE box[4]) * UnitE4,
           (IF i % 2 = 1 THEN box[5] ELSE box[6]) * UnitE4 >>]

\* image_w, image_h (lines 71-72)
ImageW == 2 * HalfW

ImageH == 2 * HalfH

\* build_projection_matrix(image_w, image_h, 90): focal = w / 2, centre
\* (w / 2, h / 2)
ExportK == [focal |-> HalfW, cx |-> HalfW, cy |-> HalfH]

\* a pixel coordinate that is a whole number, as that number
Whole(f) == f[1] \div f[2]

\* every vertex of the box projects onto whole pixel coordinates
ProjectsOnWholePixels(box) ==
    \A i \in 1..8 :
        LET pv == get_image_point(WorldVertices(box)[i], ExportK, Identity4)
        IN  pv.img[1][1] % pv.img[1][2] = 0 /\ pv.img[2][1] % pv.img[2][2] = 0

\* the clipped segments of the edges from the e-th on (lines 115-127)
RECURSIVE ClipEdges(_, _)
ClipEdges(projected_vertices, e) ==
    IF e > Len(EDGES_INDICES) THEN <<>>
    ELSE LET v1 == projected_vertices[EDGES_INDICES[e][1]]
             v2 == projected_vertices[EDGES_INDICES[e][2]]
             rest == ClipEdges(projected_vertices, e + 1)
         IN  IF v1.is_behind /\ v2.is_behind THEN rest
             ELSE LET clip_result ==
                          liang_barsky_clip(Whole(v1.img[1]), Whole(v1.img[2]),
                                            Whole(v2.img[1]), Whole(v2.img[2]),
                                            0, 0, ImageW, ImageH)
                  IN  IF clip_result.none THEN rest
                      ELSE << <<clip_result.p1, clip_result.p2>> >> \o rest

\* min(xs), max(xs) of a non-empty set of fractions
FracMin(S) == CHOOSE f \in S : \A g \in S : ~FracLess(g, f)

FracMax(S) == CHOOSE f \in S : \A g \in S : ~FracLess(f, g)

\* max(0.0, a - b)
ExtentOf(a, b) ==
    LET d == <<a[1] * b[2] - b[1] * a[2], a[2] * b[2]>>
    IN  IF d[1] < 0 THEN <<0, 1>> ELSE d

\* bbox_from_clipped = [x_min, y_min, w, h] (lines 132-141)
BBoxFromClipped(segments) ==
    LET xs == {segments[k][n][1] : k \in 1..Len(segments), n \in 1..2}
        ys == {segments[k][n][2] : k \in 1..Len(segments), n \in 1..2}
    IN  << FracMin(xs), FracMin(ys),
           ExtentOf(FracMax(xs), FracMin(xs)), ExtentOf(FracMax(ys), FracMin(ys)) >>

\* what one pass of `for actor in vehicles` does with the actor: "skip"
\* (continue), "append" with the annotation, or "raise" (lines 86-151)
ActorOutcomeNoIdTest(actor, actor_id) ==
    IF actor.fault = "transform_RuntimeError" THEN [do |-> "raise"]
    ELSE IF actor.dist > MaxDistance THEN [do |-> "skip"]
    ELSE IF actor.fwd < 1 THEN [do |-> "skip"]
    ELSE [do |-> "append",
          annotation |-> [actor_id |-> actor_id, type |-> "vehicle",
                          clipped_segments |-> <<>>, bbox_from_clipped |-> <<>>]]
ActorOutcomeNoSizeTest(actor, actor_id) ==
    IF actor.ego THEN [do |-> "skip"]
    ELSE IF actor.fault = "transform_RuntimeError" THEN [do |-> "raise"]
    ELSE IF actor.dist > MaxDistance THEN [do |-> "skip"]
    ELSE IF actor.fwd < 1 THEN [do |-> "skip"]
    ELSE [do |-> "append",
          annotation |-> [actor_id |-> actor_id, type |-> "vehicle",
                          clipped_segments |-> <<>>, bbox_from_clipped |-> <<>>]]
ActorOutcome(actor, actor_id) ==
    IF actor.ego THEN [do |-> "skip"]
    ELSE IF actor.fault = "transform_RuntimeError" THEN [do |-> "raise"]
    ELSE IF actor.dist > MaxDistance THEN [do |-> "skip"]
    ELSE IF actor.fwd < 1 THEN [do |-> "skip"]
    ELSE IF actor.fault = "bbox_AttributeError" THEN [do |-> "skip"]
    ELSE IF actor.fault = "bbox_RuntimeError" THEN [do |-> "raise"]
    ELSE LET verts == WorldVertices(actor.box)
             projected_vertices ==
                 [i \in 1..8 |-> get_image_point(verts[i], ExportK, Identity4)]
             clipped_segments_for_actor == ClipEdges(projected_vertices, 1)
         IN  IF clipped_segments_for_actor = <<>> THEN [do |-> "skip"]
             ELSE LET bbox == BBoxFromClipped(clipped_segments_for_actor)
                  IN  IF FracLess(bbox[3], <<MinBoxPx, 1>>)
                         \/ FracLess(bbox[4], <<MinBoxPx, 1>>)
                      THEN [do |-> "skip"]
                      ELSE [do |-> "append",
                            annotation |->
                                [actor_id |-> actor_id, type |-> "vehicle",
                                 clipped_segments |-> clipped_segments_for_actor,
                                 bbox_from_clipped |-> bbox]]

\* actor.id: the ego has id 1, the i-th other entry of `vehicles` id i + 1
ActorId(i) == IF vehicles[i].ego THEN 1 ELSE i + 1

\* one pass of the for loop over `vehicles` (lines 86-151); an exception
\* that is not caught inside the loop leaves export_3d_bboxes
ExportActor ==
    /\ ex_pc = "actors"
    /\ ex_i < Len(vehicles)
    /\ LET outcome == ActorOutcome(vehicles[ex_i + 1], ActorId(ex_i + 1)) IN
         /\ ex_i' = ex_i + 1
         /\ output_data' = IF outcome.do = "append"
                            THEN Append(output_data, outcome.annotation)
                            ELSE output_data
         /\ ex_pc' = IF outcome.do = "raise" THEN "raised" ELSE "actors"
    /\ UNCHANGED <<lb_args, lb_ret, gip_args, gip_ret, vehicles>>
    /\ UNCHANGED <<cleanVars, actorVars, runVars, spawnVars, mainVars>>

\* the JSON file <timestamp>_3dbbox.json is written with output_data
\* (lines 153-158)
ExportSave ==
    /\ ex_pc = "actors"
    /\ ex_i = Len(vehicles)
    /\ ex_pc' = "written"
    /\ UNCHANGED <<lb_args, lb_ret, gip_args, gip_ret, vehicles, ex_i, output_data>>
    /\ UNCHANGED <<cleanVars, actorVars, runVars, spawnVars, mainVars>>

\* os.makedirs, open or json.dump raises: the error is printed and no
\* usable file is left (lines 159-160)
ExportSaveFails ==
    /\ ex_pc = "actors"
    /\ ex_i = Len(vehicles)
    /\ ex_pc' = "write_failed"
    /\ UNCHANGED <<lb_args, lb_ret, gip_args, gip_ret, vehicles, ex_i, output_data>>
    /\ UNCHANGED <<cleanVars, actorVars, runVars, spawnVars, mainVars>>

\* bounding boxes in front of the camera: one that fills the image, one
\* of exactly 3 x 3 pixels, one 2 pixels wide, one 2 pixels high, one off
\* to the side of the image and one behind the camera
Boxes ==
    { <<2, 4, 0 - 2, 2, 0 - 2, 2>>,
      <<4, 4, 0 - 2, 1, 0 - 1, 2>>,
      <<4, 4, 0 - 1, 1, 0 - 2, 2>>,
      <<4, 4, 0 - 2, 2, 0 - 1, 1>>,
      <<4, 4, 40, 44, 0 - 2, 2>>,
      <<0 - 4, 0 - 2, 0 - 2, 2, 0 - 2, 2>> }

\* the vehicles of the world: the ego; vehicles at every distance, bearing
\* and box; vehicles whose handling raises
Actors ==
    {[ego |-> TRUE, dist |-> 0, fwd |-> 5, fault |-> "none", box |-> <<2, 4, 0 - 2, 2, 0 - 2, 2>>]}
    \cup [ego : {FALSE}, dist : {MaxDistance - 1, MaxDistance, MaxDistance + 1, MaxDistance + 10},
          fwd : {0, 1}, fault : {"none"},
          box : {b \in Boxes : ProjectsOnWholePixels(b)}]
    \cup [ego : {FALSE}, dist : {MaxDistance}, fwd : {1},
          fault : {"transform_RuntimeError", "bbox_AttributeError", "bbox_RuntimeError"},
          box : {<<2, 4, 0 - 2, 2, 0 - 2, 2>>}]

\* export_3d_bboxes is entered with the vehicles of the world (lines 65-82)
InitExport ==
    /\ vehicles \in [1..NumVehicles -> Actors]
    /\ ex_pc = "actors"
    /\ ex_i = 0
    /\ output_data = <<>>
    /\ lb_args = <<>>
    /\ lb_ret = <<>>
    /\ gip_args = <<>>
    /\ gip_ret = <<>>
    /\ CleanIdle
    /\ RunIdle
    /\ MainIdle

NextExport == ExportActor \/ ExportSave \/ ExportSaveFails

SpecExport == InitExport /\ [][NextExport]_vars

(***************************************************************************)
(* Claims about clean_scene_data (checked under SpecClean).                *)
(***************************************************************************)
Listed == Range(sensor_names)

\* the base timestamps of the primary (non side-file) files of folder s
PrimaryTs(dir, s) == {f.ts : f \in {g \in dir[s] : ~IsBBoxFile(g)}}

\* the listed folders that exist and held at least one counted file
Contributing == {s \in Listed : isdir[s] /\ TsSet(clean_impl, before, s) # {}}

\* base names held by every folder of S before the run
HeldByAll(S) ==
    {b \in Timestamps \X {"", "_3dbbox"} :
        \A s \in S : b \in TsSet(clean_impl, before, s)}

Warnings == {"warn_no_valid_files", "warn_no_common"}

SomeFolderEmpty == \E s \in Listed : ~isdir[s] \/ TsSet(clean_impl, before, s) = {}
NoAbortCondition == ~SomeFolderEmpty /\ HeldByAll(Listed) # {}

C3_AnyEmptyFolderAborts ==
    (clean_pc = "done" /\ (SomeFolderEmpty \/ HeldByAll(Listed) = {})) =>
        files = before

\* C3 (amended): if no listed folder yields a non-empty file set, or the
\* intersection of the non-empty per-folder sets is empty, no file is
\* deleted in any folder and only a warning is reported.
C3_NoValidOrNoCommonAborts ==
    (clean_pc = "done" /\ (Contributing = {} \/ HeldByAll(Contributing) = {})) =>
        (files = before /\ clean_out \in Warnings)

\* witness of C3: folders with files but nothing in common, left untouched
C3_Witness ==
    /\ clean_pc = "done"
    /\ Cardinality(Contributing) >= 2
    /\ HeldByAll(Contributing) = {}
    /\ files = before
    /\ clean_out = "warn_no_common"

(***************************************************************************)
(* Claims about run_simulation (checked under SpecRun / SpecRunFair).      *)
(***************************************************************************)
NamesReceived == Cardinality(DOMAIN received_sensors)

\* C4 as stated: whenever the wait of a tick ends without a timeout, the N
\* tokens it counted were produced by that tick's callbacks, one per
\* sensor; no token produced for an earlier tick is counted.
C4_RendezvousKeyedByTick ==
    tick_out = "complete" =>
        /\ \A n \in DOMAIN received_sensors : received_sensors[n].fresh
        /\ {received_sensors[n].src : n \in DOMAIN received_sensors}
                = Range(sensor_list)

\* C5: a wait that ends with fewer than N names received ended on a queue
\* get that timed out, which was logged ("missed") and stopped the wait;
\* no exception reaches the caller and the loop goes on to the next tick.
C5_TimeoutEndsWaitOnly ==
    /\ tick_out = "missed" =>
          (rs_pc # "wait" /\ NamesReceived < Len(sensor_list))
    /\ (tick_out \in {"complete", "missed"} /\ NamesReceived < Len(sensor_list))
          => tick_out = "missed"
    /\ (tick_out = "missed" /\ rs_exc = "none" /\ tick < ticks_per_scene)
          => rs_pc = "tick"
    /\ rs_pc = "raised" => rs_exc = "KeyboardInterrupt"

\* witness of C5: one of two tokens arrived, the get timed out, and the loop
\* stands at the next tick
C5_Witness ==
    /\ sensors_config[1] # sensors_config[2]
    /\ tick_out = "missed"
    /\ NamesReceived = Len(sensor_list) - 1
    /\ NamesReceived > 0
    /\ rs_exc = "none"
    /\ rs_pc = "tick"
    /\ tick < ticks_per_scene

\* C6: whatever callbacks are missing, late or failed, run_simulation
\* eventually leaves its teardown, having performed all ticks_per_scene
\* ticks unless an exception ended the loop.
C6_ReachesTeardown ==
    <>( /\ rs_pc \in {"returned", "raised"}
        /\ sensor_alive = {}
        /\ (rs_exc = "none" => tick = ticks_per_scene) )

\* witness of C6: all ticks done and teardown over although the last wait
\* missed a sensor
C6_Witness ==
    /\ rs_pc = "returned"
    /\ rs_exc = "none"
    /\ tick = ticks_per_scene
    /\ tick_out = "missed"
    /\ sensor_alive = {}

(***************************************************************************)
(* Claims about the scene loop of main and spawn_ego_vehicle (checked      *)
(* under Spec).                                                            *)
(***************************************************************************)
\* number of attempts made for scene s: main appends one path per attempt
Attempts(s) == Cardinality({i \in 1..Len(scene_paths) : scene_paths[i] = s})

\* between two attempts, after the retry loop and after the scene loop
AtAttemptBoundary == main_pc \in {"attempt", "after_loop", "clean", "exit"}

\* C7: at the end of every scene attempt, on every path, every actor spawned
\* during the attempt (the ego returned by or created inside
\* spawn_ego_vehicle, every sensor attached) has been destroyed: no spawned
\* actor is alive at a scene-attempt boundary.
C7_NoActorAcrossAttempts ==
    AtAttemptBoundary =>
        /\ ego # "alive"
        /\ sensor_alive = {}
        /\ orphans = 0

\* C8: an attempt whose run_simulation met an exception during its ticks is
\* not taken as completed: main's handler retries the scene, or gives it up
\* after the third attempt.
C8_TickExceptionRetriesScene ==
    (main_pc = "finally" /\ rs_exc = "caught") =>
        /\ ~scene_completed
        /\ flow = HandlerFlow

\* C9: unless the user interrupts the run, every scene id is attempted at
\* least once and at most MaxSceneRetries times, in increasing order; a
\* completed scene is not attempted again; a scene that has left the retry
\* loop without completing has had all its attempts and is reported failed,
\* and the scene after a failed one is still attempted.
C9_BoundedRetryPerScene ==
    /\ \A s \in 1..NumScenes : Attempts(s) <= MaxSceneRetries
    /\ \A i \in 1..Len(scene_paths) :
          /\ scene_paths[i] <= scene_id
          /\ i > 1 => scene_paths[i - 1] <= scene_paths[i]
    /\ main_pc \in {"spawn_ego", "stabilize", "attach", "run"}
          => scene_id \notin completed
    /\ \A s \in completed : s <= scene_id /\ Attempts(s) >= 1
    /\ \A s \in failed :
          /\ s \notin completed
          /\ Attempts(s) = MaxSceneRetries
          /\ s < NumScenes => scene_id > s
          /\ (s < NumScenes /\ main_pc # "attempt") => Attempts(s + 1) >= 1
    /\ \A s \in 1..NumScenes :
          (s < scene_id \/ main_pc = "clean" \/ (main_pc = "exit" /\ flow # "interrupt"))
              => /\ Attempts(s) >= 1
                 /\ s \in completed \/ s \in failed

\* witness of C9: the run is over, scene 1 failed after all its attempts
\* and scene 2 was attempted and completed
C9_Witness ==
    /\ main_pc = "exit"
    /\ flow # "interrupt"
    /\ 1 \in failed
    /\ Attempts(1) = MaxSceneRetries
    /\ 2 \in completed

\* C10: spawn_ego_vehicle makes at most MaxRetries sweeps, has ticked the
\* world once per failed sweep, and while it is still trying spawn points
\* (or raises RuntimeError) no try_spawn_actor has succeeded: the first
\* success is returned at once.
C10_ReturnsFirstSpawned ==
    main_pc = "spawn_ego" =>
        /\ retry <= MaxRetries
        /\ sweep_ticks = retry
        /\ sp_successes = 0

\* C11: whenever the capture run ends, however the scene loop ended,
\* clean_scene_data has been applied to every scene directory created
\* during the run.
C11_EveryScenePathCleanedAtExit ==
    main_pc = "exit" => clean_idx = Len(scene_paths)

(***************************************************************************)
(* Claims about liang_barsky_clip (checked under SpecClip).  "Inside the   *)
(* rectangle" is the closed rectangle, boundary lines included.            *)
(***************************************************************************)
InRect(x, y, a) == a.x_min <= x /\ x <= a.x_max /\ a.y_min <= y /\ y <= a.y_max

\* twice the signed area of the triangle a, b, c
Orient(a, b, c) == (b[1] - a[1]) * (c[2] - a[2]) - (b[2] - a[2]) * (c[1] - a[1])

Sign(n) == IF n > 0 THEN 1 ELSE IF n < 0 THEN 0 - 1 ELSE 0

Between(u, v, w) == (u <= w /\ w <= v) \/ (v <= w /\ w <= u)

\* c lies on the closed segment a-b
OnSegment(a, b, c) ==
    Orient(a, b, c) = 0 /\ Between(a[1], b[1], c[1]) /\ Between(a[2], b[2], c[2])

\* the closed segments a-b and c-d have a common point
SegmentsMeet(a, b, c, d) ==
    \/ /\ Sign(Orient(a, b, c)) * Sign(Orient(a, b, d)) < 0
       /\ Sign(Orient(c, d, a)) * Sign(Orient(c, d, b)) < 0
    \/ OnSegment(a, b, c) \/ OnSegment(a, b, d)
    \/ OnSegment(c, d, a) \/ OnSegment(c, d, b)

\* the segment of the call has a point in the closed rectangle: an endpoint
\* is inside or the segment meets one of the four sides
SegmentMeetsRect(a) ==
    LET s1 == <<a.x1, a.y1>>
        s2 == <<a.x2, a.y2>>
        bl == <<a.x_min, a.y_min>>
        br == <<a.x_max, a.y_min>>
        tl == <<a.x_min, a.y_max>>
        tr == <<a.x_max, a.y_max>>
    IN  \/ InRect(a.x1, a.y1, a)
        \/ InRect(a.x2, a.y2, a)
        \/ SegmentsMeet(s1, s2, bl, br)
        \/ SegmentsMeet(s1, s2, br, tr)
        \/ SegmentsMeet(s1, s2, tr, tl)
        \/ SegmentsMeet(s1, s2, tl, bl)

ClipReturned == lb_args # <<>> /\ lb_ret # <<>>

\* the returned point pt is the point (x, y)
IsPoint(pt, x, y) == FracEq(pt[1], <<x, 1>>) /\ FracEq(pt[2], <<y, 1>>)

BothEndpointsInside ==
    /\ ClipReturned
    /\ InRect(lb_args.x1, lb_args.y1, lb_args)
    /\ InRect(lb_args.x2, lb_args.y2, lb_args)

ReturnedUnchanged ==
    /\ ~lb_ret.none
    /\ IsPoint(lb_ret.p1, lb_args.x1, lb_args.y1)
    /\ IsPoint(lb_ret.p2, lb_args.x2, lb_args.y2)

\* C15 as stated: every segment with both endpoints inside the viewport is
\* returned as it is.
C15_InsideSegmentUnchanged ==
    BothEndpointsInside => ReturnedUnchanged

\* C15: a segment with both endpoints inside the viewport whose endpoints
\* differ is returned as it is, same endpoints in the same order; one whose
\* endpoints coincide is degenerate and None is returned.
C15_InsideNondegenerateUnchanged ==
    BothEndpointsInside =>
        IF lb_args.x1 = lb_args.x2 /\ lb_args.y1 = lb_args.y2
        THEN lb_ret.none
        ELSE ReturnedUnchanged

\* witness of C15: a slanted segment inside the viewport came back unchanged
C15_Witness ==
    /\ BothEndpointsInside
    /\ lb_args.x1 # lb_args.x2
    /\ lb_args.y1 # lb_args.y2
    /\ ReturnedUnchanged

\* the boundary lines the point (x, y) is beyond
BeyondLines(x, y, a) ==
    {l \in {"left", "right", "bottom", "top"} :
        \/ l = "left" /\ x < a.x_min
        \/ l = "right" /\ x > a.x_max
        \/ l = "bottom" /\ y < a.y_min
        \/ l = "top" /\ y > a.y_max}

\* the returned point pt lies on boundary line l
OnLine(pt, l, a) ==
    \/ l = "left" /\ FracEq(pt[1], <<a.x_min, 1>>)
    \/ l = "right" /\ FracEq(pt[1], <<a.x_max, 1>>)
    \/ l = "bottom" /\ FracEq(pt[2], <<a.y_min, 1>>)
    \/ l = "top" /\ FracEq(pt[2], <<a.y_max, 1>>)

\* the integer point (x, y) lies on boundary line l
PointOnLine(x, y, l, a) == OnLine(<< <<x, 1>>, <<y, 1>> >>, l, a)

\* the returned point pt lies on the line through the segment of the call
OnCallLine(pt, a) ==
    (pt[1][1] - a.x1 * pt[1][2]) * (a.y2 - a.y1) * pt[2][2]
        = (pt[2][1] - a.y1 * pt[2][2]) * (a.x2 - a.x1) * pt[1][2]

\* the first endpoint is inside, the second is beyond exactly line l
FirstInsideSecondBeyond(l) ==
    /\ ClipReturned
    /\ InRect(lb_args.x1, lb_args.y1, lb_args)
    /\ BeyondLines(lb_args.x2, lb_args.y2, lb_args) = {l}

\* the second endpoint is inside, the first is beyond exactly line l
SecondInsideFirstBeyond(l) ==
    /\ ClipReturned
    /\ InRect(lb_args.x2, lb_args.y2, lb_args)
    /\ BeyondLines(lb_args.x1, lb_args.y1, lb_args) = {l}

\* the inside endpoint is kept and the other one is moved onto line l
FirstKeptSecondOnLine(l) ==
    /\ ~lb_ret.none
    /\ IsPoint(lb_ret.p1, lb_args.x1, lb_args.y1)
    /\ OnLine(lb_ret.p2, l, lb_args)
    /\ OnCallLine(lb_ret.p2, lb_args)

SecondKeptFirstOnLine(l) ==
    /\ ~lb_ret.none
    /\ IsPoint(lb_ret.p2, lb_args.x2, lb_args.y2)
    /\ OnLine(lb_ret.p1, l, lb_args)
    /\ OnCallLine(lb_ret.p1, lb_args)

Lines == {"left", "right", "bottom", "top"}

ProjectReturned == gip_args # <<>> /\ gip_ret # <<>>

\* C17: for every vertex whose camera-space depth is at or below 1e-4 (0
\* and negative depths included) get_image_point returns is_behind true,
\* divides by the clamped depth 1e-3 and never by zero, and returns finite
\* pixel coordinates.
C17_BehindVertexClampedAndFinite ==
    (ProjectReturned /\ CameraDepth(gip_args) <= EpsE4) =>
        /\ gip_ret.is_behind
        /\ gip_ret.divisor = ClampE4
        /\ gip_ret.finite
        /\ gip_ret.img[1][2] > 0
        /\ gip_ret.img[2][2] > 0

\* witness of C17: a vertex on the camera plane, off the optical axis, has
\* been projected
C17_Witness ==
    /\ ProjectReturned
    /\ CameraDepth(gip_args) = 0
    /\ gip_args.loc[2] # 0
    /\ gip_args.w2c = Identity4
    /\ gip_ret.is_behind
    /\ gip_ret.finite

(***************************************************************************)
(* Claims about export_3d_bboxes (checked under SpecExport).               *)
(***************************************************************************)
\* the entries of `vehicles` whose actor.id is id
WithId(id) == {i \in 1..Len(vehicles) : ActorId(i) = id}

\* the actor ids that have an annotation in output_data
Annotated == {output_data[k].actor_id : k \in 1..Len(output_data)}

\* C12: every annotation emitted belongs to a vehicle that is not the ego
\* and is at most MaxDistance (50) from the ego, whatever its bearing and
\* its box in the image; a vehicle 60 away has no annotation.
C12_AnnotatedNotEgoAndNear ==
    \A id \in Annotated : \A i \in WithId(id) :
        /\ ~vehicles[i].ego
        /\ vehicles[i].dist <= MaxDistance

\* witness of C12: the file is written with the annotation of a vehicle at
\* distance 50, while a vehicle 60 away with the same bearing and box in
\* front of the camera has none
C12_Witness ==
    /\ ex_pc = "written"
    /\ vehicles[1].dist = MaxDistance + 10
    /\ vehicles[1].fwd = 1
    /\ vehicles[1].box = vehicles[2].box
    /\ vehicles[2].dist = MaxDistance
    /\ vehicles[2].fault = "none"
    /\ Annotated = {ActorId(2)}

\* C13: every annotation emitted has at least one clipped segment and a
\* rectangle at least MinBoxPx (3) pixels wide and high.
C13_AnnotatedHasSegmentsAndSize ==
    \A k \in 1..Len(output_data) :
        /\ Len(output_data[k].clipped_segments) >= 1
        /\ ~FracLess(output_data[k].bbox_from_clipped[3], <<MinBoxPx, 1>>)
        /\ ~FracLess(output_data[k].bbox_from_clipped[4], <<MinBoxPx, 1>>)

\* witness of C13: the file is written; a vehicle whose rectangle is
\* exactly 3 x 3 pixels is annotated and a near vehicle in front of the
\* camera whose rectangle is narrower is not
C13_Witness ==
    /\ ex_pc = "written"
    /\ ~vehicles[1].ego /\ vehicles[1].dist <= MaxDistance /\ vehicles[1].fwd = 1
    /\ vehicles[1].fault = "none"
    /\ vehicles[1].box = <<4, 4, 0 - 1, 1, 0 - 2, 2>>
    /\ Len(output_data) = 1
    /\ output_data[1].actor_id = ActorId(2)
    /\ FracEq(output_data[1].bbox_from_clipped[3], <<MinBoxPx, 1>>)
    /\ FracEq(output_data[1].bbox_from_clipped[4], <<MinBoxPx, 1>>)

\* C18: an exception raised while one actor is processed skips that actor
\* only: no exception leaves export_3d_bboxes, and the file written holds
\* the annotation of every other actor that passes the filters.
C18_ActorExceptionSkipsThatActor ==
    /\ ex_pc # "raised"
    /\ ex_pc = "written" =>
          \A i \in 1..Len(vehicles) :
              ActorOutcome(vehicles[i], ActorId(i)).do = "append"
                  => ActorId(i) \in Annotated

(***************************************************************************)
(* Further claims about run_simulation (checked under SpecRun).            *)
(***************************************************************************)
\* blocking gets of the current tick: those that returned a token and the
\* one that timed out
GetsThisTick == gets + (IF tick_out = "missed" THEN 1 ELSE 0)

\* C19: in every tick the tick loop performs at most N blocking queue gets,
\* N the number of attached sensors (of distinct names), whatever tokens
\* an earlier timed-out tick left in the queue.
C19_AtMostNGetsPerTick ==
    sensors_config[1] # sensors_config[2] => GetsThisTick <= Len(sensor_list)

(***************************************************************************)
(* Further claims about the scene loop of main (checked under Spec).       *)
(***************************************************************************)
\* C20: an exception raised while the sensors are spawned and attached
\* reaches the handler of the retry loop with no capture tick run in that
\* attempt; the finally block destroys the ego and the sensors attached so
\* far, and the scene is attempted again while attempts remain.
C20_AttachFailureRetriesScene ==
    [][ /\ (main_pc = "attach" /\ main_pc' = "finally" /\ flow' # "interrupt") =>
             /\ flow' = IF scene_retry < MaxSceneRetries - 1 THEN "retry" ELSE "give_up"
             /\ rs_pc' = "idle"
             /\ tick' = 0
        /\ (main_pc = "finally" /\ main_pc' # "finally") =>
             /\ ego' # "alive"
             /\ sensor_alive' = {}
        /\ (main_pc = "finally" /\ main_pc' # "finally" /\ flow = "retry") =>
             /\ main_pc' = "attempt"
             /\ scene_id' = scene_id
             /\ scene_retry' = scene_retry + 1
             /\ scene_retry' < MaxSceneRetries ]_vars

\* witness of C20: the first attempt of scene 1 failed after one sensor was
\* attached; ego and sensor are destroyed and the second attempt is about
\* to start
C20_Witness ==
    /\ main_pc = "attempt"
    /\ scene_id = 1
    /\ scene_retry = 1
    /\ sensor_list = <<1>>
    /\ sensor_alive = {}
    /\ ego = "dead"
    /\ tick = 0

(***************************************************************************)
(* Claims about the phases of one attempt of main (checked under Spec).    *)
(***************************************************************************)
\* the phases of one attempt, in the order main goes through them
PhaseRank(pc) ==
    CASE pc = "attempt" -> 0
      [] pc = "spawn_ego" -> 1
      [] pc = "stabilize" -> 2
      [] pc = "attach" -> 3
      [] pc = "run" -> 4
      [] pc = "finally" -> 5
      [] OTHER -> 6

\* the teardown of the attempt has begun or is over: run_simulation is in
\* or past its finally block, or main is in its own
InTeardown == rs_pc \in {"finally", "returned", "raised"} \/ main_pc = "finally"

\* C21: within one attempt the phases happen in the order SPAWN_EGO,
\* STABILIZE, SPAWN_SENSORS, RUN_TICKS, TEARDOWN: a sensor is spawned only
\* when the ego vehicle exists and the StabilizeTicks warm-up ticks are
\* done, a capture tick is issued only when every configured sensor is
\* attached and alive, and no world tick of the attempt follows the start
\* of its teardown.
C21_PhasesInOrder ==
    [][ /\ (main_pc' # main_pc /\ PhaseRank(main_pc) < 5) =>
              \/ PhaseRank(main_pc') = PhaseRank(main_pc) + 1
              \/ main_pc' = "finally"
        /\ (main_pc' = "attach" /\ main_pc # "attach") =>
              (main_pc = "stabilize" /\ warm = StabilizeTicks /\ ego = "alive")
        /\ (sensor_alive' \ sensor_alive # {}) =>
              (main_pc = "attach" /\ main_pc' = "attach" /\ ego = "alive")
        /\ (tick' > tick) =>
              /\ main_pc = "run"
              /\ Len(sensor_list) = NumSensors
              /\ Range(sensor_list) \subseteq sensor_alive
              /\ ego = "alive"
        /\ InTeardown =>
              (tick' <= tick /\ warm' <= warm /\ sweep_ticks' <= sweep_ticks)
      ]_vars

\* witness of C21: an attempt that went through every phase, all capture
\* ticks issued and the teardown of run_simulation done
C21_Witness ==
    /\ main_pc = "finally"
    /\ flow = "completed"
    /\ tick = ticks_per_scene
    /\ Len(sensor_list) = NumSensors
    /\ sensor_alive = {}
    /\ ego = "dead"

(***************************************************************************)
(* Claims about the side files and the repeated run of clean_scene_data    *)
(* (checked under SpecCleanAny).                                           *)
(***************************************************************************)
\* the common timestamp set the first run computed from the directory
FirstCommonTs ==
    CommonTs(clean_impl, TsDictKeys(clean_impl, Listed, isdir, before), before)

\* the first run went as far as its deletion loop
FirstRunPruned == clean_pc = "done" /\ clean_out \notin Warnings

\* C22: when clean_scene_data prunes a scene directory, a <t>_3dbbox.json
\* file is never counted toward its folder's timestamp set, is kept
\* whenever its timestamp t is in the common timestamp set, and is deleted
\* when t is not.
C22_SideFileFollowsPrimaryFrame ==
    FirstRunPruned =>
        \A s \in Listed : isdir[s] =>
            \A f \in before[s] : IsBBoxFile(f) =>
                /\ f \notin CountedFiles(clean_impl, before, s)
                /\ (f \in files[s] <=> BBoxBaseTs(f) \in FirstCommonTs)

\* the directory with the files of its instance-segmentation folders taken out
WithoutInstanceFiles(dir) ==
    [s \in DOMAIN dir |-> IF IsInstanceFolder(s) THEN {} ELSE dir[s]]

NearZeroDepth == Abs(CameraDepth(gip_args)) <= EpsE4

\* the pair np.array([-1e6, -1e6])
SentinelPoint == << <<0 - SentinelPx, 1>>, <<0 - SentinelPx, 1>> >>

\* the vertex of the call in camera space, world_to_camera applied
CameraPoint(a) == Dot4(a.w2c, <<a.loc[1], a.loc[2], a.loc[3], UnitE4>>)

\* C24 as stated: for a vertex whose depth is within epsilon of zero
\* get_image_point returns the sentinel point (-1e6, -1e6) and a true
\* behind flag.
C24_NearZeroDepthReturnsSentinel ==
    (ProjectReturned /\ NearZeroDepth) =>
        /\ gip_ret.is_behind
        /\ FracEq(gip_ret.img[1], SentinelPoint[1])
        /\ FracEq(gip_ret.img[2], SentinelPoint[2])

\* C24 (amended): for a vertex whose depth is within epsilon of zero
\* get_image_point raises nothing and returns a true behind flag with the
\* projection of the vertex taken at the clamped depth 1e-3; the
\* perspective denominator is that clamped depth, never within epsilon of
\* zero.
C24_NearZeroDepthProjectedAtClamp ==
    (ProjectReturned /\ NearZeroDepth) =>
        LET c == CameraPoint(gip_args)
            K == gip_args.K IN
        /\ gip_ret.is_behind
        /\ gip_ret.finite
        /\ Abs(gip_ret.divisor) >= EpsE4
        /\ FracEq(gip_ret.img[1],
                  Frac(K.focal * c[2] + K.cx * ClampE4, ClampE4))
        /\ FracEq(gip_ret.img[2],
                  Frac(K.focal * (0 - c[3]) + K.cy * ClampE4, ClampE4))

\* witness of C24: a vertex at depth 1e-4 in front of the camera plane has
\* been projected, and what came back is not the sentinel point
C24_Witness ==
    /\ ProjectReturned
    /\ CameraDepth(gip_args) = EpsE4
    /\ gip_ret.is_behind
    /\ ~FracEq(gip_ret.img[1], SentinelPoint[1])

(***************************************************************************)
(* Claims about the tokens of sensor_callback and the rendezvous (checked  *)
(* under SpecRun).                                                         *)
(***************************************************************************)
\* the step is an invocation of the callback registered for sensor i: one
\* of its pending frames is consumed while run_simulation stays where it is
CallbackStep(i) ==
    /\ pending'[i] # pending[i]
    /\ rs_pc' = rs_pc
    /\ tick' = tick

\* C25: every invocation of sensor_callback enqueues exactly one token,
\* tagged with the name of the sensor the callback was registered for; the
\* token carries the frame's millisecond timestamp when saving succeeded
\* and timestamp 0 when something in the callback raised; nothing else
\* puts a token.
C25_OneTokenPerCallback ==
    [][ /\ \A i \in DOMAIN pending : CallbackStep(i) =>
              /\ Len(sensor_queue') = Len(sensor_queue) + 1
              /\ SubSeq(sensor_queue', 1, Len(sensor_queue)) = sensor_queue
              /\ LET tok == sensor_queue'[Len(sensor_queue')] IN
                   /\ tok.src = i
                   /\ tok.name = sensors_config[i]
                   /\ tok.ts \in {"t_ms", "0"}
                   /\ \E fresh \in pending[i] \ pending'[i] :
                         tok.fresh = fresh
        /\ Len(sensor_queue') > Len(sensor_queue) =>
              \E i \in DOMAIN pending : CallbackStep(i)
        /\ \A i \in DOMAIN pending, fresh \in BOOLEAN :
              /\ SensorCallbackToken(i, fresh, TRUE).ts = "t_ms"
              /\ SensorCallbackToken(i, fresh, FALSE).ts = "0"
      ]_vars

\* witness of C25: the queue holds the token of a callback of the first
\* sensor that raised and the token of a callback of the second, differently
\* named, sensor that saved its frame
C25_Witness ==
    /\ sensors_config[1] # sensors_config[2]
    /\ Len(sensor_queue) = 2
    /\ sensor_queue[1].src = 1
    /\ sensor_queue[1].ts = "0"
    /\ sensor_queue[1].name = sensors_config[1]
    /\ sensor_queue[2].src = 2
    /\ sensor_queue[2].ts = "t_ms"
    /\ sensor_queue[2].name = sensors_config[2]

\* sensor i has a token in the queue / in received_sensors
InQueue(i) == \E k \in DOMAIN sensor_queue : sensor_queue[k].src = i
InReceived(i) ==
    \E n \in DOMAIN received_sensors : received_sensors[n].src = i

\* no two attached sensors share a name
DistinctNames ==
    \A i, j \in DOMAIN sensors_config :
        i # j => sensors_config[i] # sensors_config[j]

\* the rendezvous is in step with the world: no get has timed out in this
\* tick, the queue and the callbacks outstanding are all of the latest
\* frame, the queue is empty whenever world.tick() is about to be called,
\* and a finished wait has made exactly N gets, one fresh token per sensor
InStep ==
    /\ DistinctNames
    /\ tick_out # "missed"
    /\ \A k \in DOMAIN sensor_queue : sensor_queue[k].fresh
    /\ \A i \in DOMAIN pending : FALSE \notin pending[i]
    /\ rs_pc = "tick" =>
          /\ sensor_queue = <<>>
          /\ \A i \in DOMAIN pending : pending[i] = {}
    /\ rs_pc = "wait" =>
          /\ gets = Cardinality(DOMAIN received_sensors)
          /\ gets < NumSensors
          /\ \A n \in DOMAIN received_sensors : received_sensors[n].fresh
          /\ \A i \in DOMAIN pending :
                Cardinality({b \in {1, 2, 3} :
                                \/ b = 1 /\ pending[i] = {TRUE}
                                \/ b = 2 /\ InQueue(i)
                                \/ b = 3 /\ InReceived(i)}) = 1
    /\ tick_out = "complete" =>
          /\ gets = NumSensors
          /\ DOMAIN received_sensors = Range(sensors_config)
          /\ \A i \in DOMAIN sensors_config :
                LET tok == received_sensors[sensors_config[i]] IN
                tok.src = i /\ tok.fresh
          /\ sensor_queue = <<>>
          /\ \A i \in DOMAIN pending : pending[i] = {}

\* C26: if the attached sensors have distinct names, each sensor delivers
\* one callback per world tick and no queue get times out, then the queue
\* is empty every time world.tick() is called and each tick performs
\* exactly N gets, whose tokens are one per sensor for that tick: the
\* rendezvous starts in step and every step other than a get timeout keeps
\* it in step.
C26_RendezvousStaysInStep ==
    /\ (DistinctNames /\ tick = 0 /\ rs_pc = "tick") => InStep
    /\ [][ (InStep /\ tick_out' # "missed") => InStep' ]_vars

\* witness of C26: the last tick of a run in step has finished its wait
C26_Witness ==
    /\ InStep
    /\ tick = ticks_per_scene
    /\ tick > 1
    /\ tick_out = "complete"
    /\ rs_pc = "finally"

\* C27: if two attached sensors share a name, no tick ever completes its
\* rendezvous: the count of distinct received names stays below
\* len(sensor_list), and a wait that run_simulation leaves for the next
\* iteration was ended by a queue-get timeout.
C27_SharedNameNeverCompletes ==
    ~DistinctNames =>
        /\ Cardinality(DOMAIN received_sensors) < Len(sensor_list)
        /\ tick_out # "complete"
        /\ (tick > 0 /\ rs_pc = "tick") => tick_out = "missed"
        /\ (tick > 0 /\ rs_pc \in {"finally", "returned"} /\ rs_exc = "none")
              => tick_out = "missed"

\* witness of C27: two sensors of one name, both tokens of the last tick
\* delivered and got, and the wait ended by a timeout all the same
C27_Witness ==
    /\ ~DistinctNames
    /\ tick = ticks_per_scene
    /\ rs_pc = "finally"
    /\ rs_exc = "none"
    /\ tick_out = "missed"
    /\ gets >= Len(sensor_list)
    /\ \A i \in DOMAIN pending : pending[i] = {}
    /\ \E n \in DOMAIN received_sensors : received_sensors[n].fresh

(***************************************************************************)
(* Claims about the two teardown blocks (checked under Spec).              *)
(***************************************************************************)
\* C28: destroy() is never invoked on an actor that is no longer alive:
\* in either finally block the actors destroyed are alive ones, and once
\* run_simulation's teardown is done the cleanup block of main destroys
\* nothing, also when `vehicle` and `sensor_list` still refer to the actors
\* of a previous attempt.
C28_NoDestroyOfDeadActor ==
    (main_pc = "finally" \/ rs_pc = "finally") =>
        /\ DestroyedSensors(sensor_list, sensor_alive) \subseteq sensor_alive
        /\ DestroysVehicle(ego) => ego = "alive"
        /\ (main_pc = "finally" /\ rs_pc \in {"returned", "raised"}) =>
              /\ DestroyedSensors(sensor_list, sensor_alive) = {}
              /\ ~DestroysVehicle(ego)
        /\ (main_pc = "finally" /\ ego = "dead") => ~DestroysVehicle(ego)

\* witness of C28: the cleanup block of main is reached in a retried
\* attempt whose spawn failed, with `vehicle` and `sensor_list` still bound
\* to the destroyed actors of the attempt before
C28_Witness ==
    /\ main_pc = "finally"
    /\ scene_retry > 0
    /\ rs_pc = "idle"
    /\ ego = "dead"
    /\ sensor_list # <<>>
    /\ Range(sensor_list) \cap sensor_alive = {}

ReturnedInViewport(pt, a) ==
    /\ a.x_min * pt[1][2] <= pt[1][1] /\ pt[1][1] <= a.x_max * pt[1][2]
    /\ a.y_min * pt[2][2] <= pt[2][1] /\ pt[2][1] <= a.y_max * pt[2][2]

\* the returned point pt lies on the closed segment of the call
ReturnedOnInputSegment(pt, a) ==
    /\ OnCallLine(pt, a)
    /\ Between(a.x1 * pt[1][2], a.x2 * pt[1][2], pt[1][1])
    /\ Between(a.y1 * pt[2][2], a.y2 * pt[2][2], pt[2][1])

\* u -> v goes the way of the input segment on the axis, or is still on it
AxisDirection(u, v, d) == Sign(v[1] * u[2] - u[1] * v[2]) * Sign(d)

\* C30: whenever liang_barsky_clip returns a segment, both returned
\* endpoints lie inside the closed viewport rectangle and on the input
\* segment, and the segment runs in the input's direction.
C30_ClippedInsideViewport ==
    (ClipReturned /\ ~lb_ret.none) =>
        /\ ReturnedInViewport(lb_ret.p1, lb_args)
        /\ ReturnedInViewport(lb_ret.p2, lb_args)
        /\ ReturnedOnInputSegment(lb_ret.p1, lb_args)
        /\ ReturnedOnInputSegment(lb_ret.p2, lb_args)
        /\ AxisDirection(lb_ret.p1[1], lb_ret.p2[1], lb_args.x2 - lb_args.x1) >= 0
        /\ AxisDirection(lb_ret.p1[2], lb_ret.p2[2], lb_args.y2 - lb_args.y1) >= 0
        /\ AxisDirection(lb_ret.p1[1], lb_ret.p2[1], lb_args.x2 - lb_args.x1)
             + AxisDirection(lb_ret.p1[2], lb_ret.p2[2], lb_args.y2 - lb_args.y1) > 0
=============================================================================
